---------------------------- MODULE Spec2Model ----------------------------
(***************************************************************************)
(* A model of the functional-PCA pipeline of HEIG (src/heig/fpca.py):      *)
(* the GCV bandwidth sweep of KernelSmooth.gcv with its scratch file, the  *)
(* density check of LocalLinear.smoother, the chunked image_reader, the    *)
(* component/batch-size policy of FPCA, and the control flow and file      *)
(* effects of run().                                                       *)
(*                                                                         *)
(* Floating-point scores are modelled by the integers 0..MaxScore, with    *)
(* Inf above all of them and NaN a value for which every ordered           *)
(* comparison is false (FloatLt).                                          *)
(***************************************************************************)
EXTENDS Integers, Sequences, FiniteSets, TLC

(***************************************************************************)
(* Bounds of the model.                                                    *)
(***************************************************************************)
\* longest candidate list bw_list handed to gcv
MaxCand == 3
\* largest finite GCV score
MaxScore == 2
\* largest grid (number of voxels N) of the smoother specification
MaxGrid == 11
\* most retained weights one per-voxel task returns in the smoother specification
MaxRowNnz == 2

(***************************************************************************)
(* Floating-point values of the score array.                               *)
(***************************************************************************)
\* np.nan
NaN == -1
\* np.Inf
Inf == MaxScore + 1

\* x < y on floats: false as soon as one side is NaN
FloatLt(x, y) == x # NaN /\ y # NaN /\ x < y

\* Python's None for an optional argument: <<>> is None, <<v>> is the value v
None == <<>>
Some(v) == <<v>>
Val(o) == o[1]

VARIABLES
    pc,                \* position of run() / do_kernel_smoothing() / gcv()
    args,              \* the fPCA arguments: image, bw_opt, all_pc, n_ldrs
    exc,               \* the exception propagating out of the current call ("none" if none)
    N,                 \* number of voxels of the image (self.N)
    bw_len,            \* number of candidate bandwidths of the sweep, len(bw_list)
    cii,               \* loop index of the sweep
    score,             \* score[0..len-1], the float32 array of gcv
    min_score,         \* running minimum of gcv
    built,             \* what smoother() returned for each candidate evaluated so far
    merged,            \* the nonzeros the tasks of each evaluated candidate stored, before the density check
    raw,               \* the score computed for each evaluated candidate, before the zero test
    evaluated,         \* the candidates evaluated so far, in order
    saves,             \* the candidates whose weights were written to scratch, in order
    temp_npz,          \* the scratch file {temp_path}.npz
    sm_images_h5,      \* the smoothed image dataset {out}_sm_images.h5
    out_files,         \* the output files written by run()
    sparse_sm_weight,  \* the matrix held by do_kernel_smoothing (gcv's or smoother's result)
    \* image_reader
    id_idxs,           \* the row indices of the retained subjects, ascending
    img_N,             \* images.shape[1]
    rd_pc,             \* position of the generator
    rd_i,              \* the loop variable i of range(0, n, batch_size)
    rd_batch_size,     \* batch_size of image_reader
    rd_batches,        \* the index chunks yielded so far, in yield order
    \* LocalLinear.smoother
    sm_pc,             \* position of smoother
    sm_N,              \* self.N
    sm_pending,        \* the voxels whose future has not been merged yet
    sm_nnz,            \* stored nonzeros of the dok matrix so far
    sm_ret,            \* what smoother returned
    \* FPCA
    f_pc,              \* position: supplied, checked (check_input), constructed (FPCA)
    f_given,           \* all_pc and n_ldrs as supplied by the user
    f_args,            \* args.all_pc and args.n_ldrs
    n_sub,             \* number of subjects of the smoothed images
    n_voxels,          \* number of voxels of the smoothed images
    n_top,             \* self.n_top
    batch_size,        \* self.batch_size
    n_batches,         \* self.n_batches
    f_i,               \* the loop variable i of do_fpca
    fitted,            \* the row slices <<from, to>> handed to partial_fit, in call order
    imputed,           \* eigenvalues.imputed_values, as the segments it was concatenated from
    \* EigenValues
    e_pc,              \* position of EigenValues.__init__ after _bspline
    imputed_values,    \* self.imputed_values
    eff_num,           \* self.eff_num, as the fraction <<numerator, denominator>>
    prop_ldrs,         \* prop_ldrs of _print_prop_ldr: proportion -> number of LDRs
    \* gcv with the tasks of smoother and _calculate_diff_parallel
    t_pc,              \* position of gcv: gcv, as_completed, diff, returned, raised
    t_N,               \* self.N
    t_len,             \* len(bw_list)
    t_B,               \* number of batches image_reader yields
    t_data,            \* per candidate started: the reach of its kernel, the residual of each batch
    t_cii,             \* loop index of the sweep
    t_pending,         \* the voxels whose future as_completed has not yielded yet
    t_dok,             \* the dok matrix of smoother: merged row -> what was stored in it
    t_k,               \* how many futures of _calculate_diff_parallel were collected
    t_diff,            \* the list diff of _calculate_diff_parallel
    t_score,           \* the array score
    t_min_score,       \* min_score
    t_npz,             \* the scratch file {temp_path}.npz
    t_scored,          \* for each candidate scored: the rows its matrix held and the batches summed
    t_ret,             \* what gcv returned: which_min, min_mse and the matrix loaded
    \* check_accepted_args
    a_pc,              \* parsed, then checked
    a_module,          \* the module selected
    a_given,           \* the options as the user supplied them
    a_args,            \* args
    a_log,             \* the warnings logged
    \* LocalLinear at the grain of its threads: the caller and the pool workers
    p_pc,              \* position of the calling thread
    p_N,               \* self.N
    p_len,             \* len(bw_list)
    p_B,               \* number of batches image_reader yields
    p_cii,             \* loop index of the sweep
    p_reach,           \* the reach of the kernel of the current candidate
    p_fut,             \* the futures of the executor: state, worker thread, result
    p_yielded,         \* the futures as_completed has yielded and the caller has handled
    p_dok,             \* the dok matrix of smoother: row -> what was stored in it
    p_writers,         \* the <<thread, row>> in the middle of a store into the dok matrix
    p_k,               \* how many futures of _calculate_diff_parallel were collected
    p_diff,            \* the list diff of _calculate_diff_parallel
    p_score,           \* the array score
    p_min_score,       \* min_score
    p_b,               \* how many batches the loop of do_kernel_smoothing has handled
    p_mean,            \* subject_wise_mean, before the division
    p_divided,         \* how many times subject_wise_mean was divided by n_subjects
    p_updates,         \* every update of score/min_score and of subject_wise_mean, in order
    \* VGWAS._compute_ztz_inv and VGWAS.recover_beta
    v_pc,              \* position of the calling thread: submit, as_completed, returned
    v_fn,              \* which of the two functions runs
    v_B,               \* number of batches data_reader yields
    v_fut,             \* the futures submitted so far: state, worker thread, value read
    v_lock,            \* the future whose task holds lock (NoThread if free)
    v_acc,             \* the shared accumulator ztz_inv / voxel_beta
    v_yielded,         \* the futures as_completed has yielded
    v_ret,             \* what the function returned
    \* do_kernel_smoothing: the loop that writes the smoothed images
    w_pc,              \* position: start, loop, done, raised
    w_ids,             \* id_idxs, the rows of the retained subjects, ascending
    w_N,               \* n_voxels = images.shape[1]
    w_batch_size,      \* batch_size of image_reader
    w_i,               \* the loop variable i of image_reader
    start_idx,         \* start_idx
    end_idx,           \* end_idx
    sm_images,         \* the dataset sm_images: for each row the subject written to it
    subject_wise_mean, \* subject_wise_mean: the sum accumulated and its divisor
    w_ranges,          \* the row ranges <<start_idx, end_idx>> written, in order
    \* process_voxels
    x_pc,              \* position: as_completed, returned
    x_q,               \* len(voxel_idxs)
    all_sig_idxs_voxel, \* for each position, whether the voxel has a significant SNP
    x_pending,         \* the positions whose future as_completed has not yielded yet
    results_dict,      \* results_dict
    next_write_i,      \* next_write_i
    x_file,            \* the blocks appended to outpath, each known by its position
    \* PlinkBEDFile
    b_m,               \* self.m, the number of SNPs kept
    currentSNP,        \* self._currentSNP
    geno,              \* self.geno, as the sequence of the SNPs it encodes
    b_calls            \* the calls of nextSNPs so far: num, cursor before, outcome, SNPs returned

pipeVars == <<pc, args, exc, N, bw_len, cii, score, min_score, built, merged, raw, evaluated,
              saves, temp_npz, sm_images_h5, out_files, sparse_sm_weight>>
readerVars == <<id_idxs, img_N, rd_pc, rd_i, rd_batch_size, rd_batches>>
smVars == <<sm_pc, sm_N, sm_pending, sm_nnz, sm_ret>>
fpcaVars == <<f_pc, f_given, f_args, n_sub, n_voxels, n_top, batch_size, n_batches,
              f_i, fitted, imputed>>
eigVars == <<e_pc, imputed_values, eff_num, prop_ldrs>>
taskVars == <<t_pc, t_N, t_len, t_B, t_data, t_cii, t_pending, t_dok, t_k, t_diff,
              t_score, t_min_score, t_npz, t_scored, t_ret>>
argVars == <<a_pc, a_module, a_given, a_args, a_log>>
poolVars == <<p_pc, p_N, p_len, p_B, p_cii, p_reach, p_fut, p_yielded, p_dok, p_writers,
              p_k, p_diff, p_score, p_min_score, p_b, p_mean, p_divided, p_updates>>
\* the groups of the specifications that follow check_accepted_args
vgwasVars == <<v_pc, v_fn, v_B, v_fut, v_lock, v_acc, v_yielded, v_ret>>
writeVars == <<w_pc, w_ids, w_N, w_batch_size, w_i, start_idx, end_idx, sm_images,
               subject_wise_mean, w_ranges>>
voxelVars == <<x_pc, x_q, all_sig_idxs_voxel, x_pending, results_dict, next_write_i, x_file>>
bedVars == <<b_m, currentSNP, geno, b_calls>>
laterVars == <<poolVars, vgwasVars, writeVars, voxelVars, bedVars>>
vars == <<pipeVars, readerVars, smVars, fpcaVars, eigVars, taskVars, argVars, laterVars>>

\* the variables of the other specifications, which a step of one leaves alone
notPipe == <<readerVars, smVars, fpcaVars, eigVars, taskVars, argVars, laterVars>>
notReader == <<pipeVars, smVars, fpcaVars, eigVars, taskVars, argVars, laterVars>>
notSmoother == <<pipeVars, readerVars, fpcaVars, eigVars, taskVars, argVars, laterVars>>
notFpca == <<pipeVars, readerVars, smVars, eigVars, taskVars, argVars, laterVars>>
notEigen == <<pipeVars, readerVars, smVars, fpcaVars, taskVars, argVars, laterVars>>
notTasks == <<pipeVars, readerVars, smVars, fpcaVars, eigVars, argVars, laterVars>>
notArgs == <<pipeVars, readerVars, smVars, fpcaVars, eigVars, taskVars, laterVars>>
earlierVars == <<pipeVars, readerVars, smVars, fpcaVars, eigVars, taskVars, argVars>>
notPool == <<earlierVars, vgwasVars, writeVars, voxelVars, bedVars>>
notVgwas == <<earlierVars, poolVars, writeVars, voxelVars, bedVars>>
notWrite == <<earlierVars, poolVars, vgwasVars, voxelVars, bedVars>>
notVoxels == <<earlierVars, poolVars, vgwasVars, writeVars, bedVars>>
notBed == <<earlierVars, poolVars, vgwasVars, writeVars, voxelVars>>

(***************************************************************************)
(* Sparse weight matrices.  A matrix is known by the candidate it was      *)
(* built for, its shape, its number of stored nonzeros and its storage     *)
(* format; the same record shape stands for "no matrix" and for files.     *)
(***************************************************************************)
NoWeight == [cand |-> -1, shape |-> 0, nnz |-> 0, fmt |-> "None"]
Absent == [cand |-> -1, shape |-> 0, nnz |-> 0, fmt |-> "absent"]

\* dok_matrix((N, N)) filled by the per-voxel tasks
DokMatrix(c, n, k) == [cand |-> c, shape |-> n, nnz |-> k, fmt |-> "dok"]
\* sparse_sm_weight.tocoo()
tocoo(w) == [w EXCEPT !.fmt = "coo"]
\* sparse_sm_weight.todok()
todok(w) == [w EXCEPT !.fmt = "dok"]
\* a file whose writing has begun and has not finished
Partial(w) == [w EXCEPT !.fmt = "partial"]

\* the smoothed image dataset made with the matrix w: open for writing, then written
H5Open(w) == [w EXCEPT !.fmt = "h5_open"]
H5Written(w) == [w EXCEPT !.fmt = "h5"]

\* os.path.exists
Exists(f) == f.fmt # "absent"

(***************************************************************************)
(* LocalLinear.smoother: the density check on the merged matrix.           *)
(***************************************************************************)
\* the density check written with >= : a mean equal to N // 10 is rejected too
TooDense_ge(n, nnz) == nnz >= n * (n \div 10)

\* np.mean(nonzero_weights) > self.N // 10, nonzero_weights summing to nnz over N columns
TooDense(n, nnz) == nnz > n * (n \div 10)

\* what smoother returns for the merged matrix
SmootherResult(c, n, nnz) == IF TooDense(n, nnz) THEN NoWeight ELSE DokMatrix(c, n, nnz)


(***************************************************************************)
(* KernelSmooth.gcv: selection after the sweep.                            *)
(***************************************************************************)
\* every entry of sc is NaN: np.nanargmin raises ValueError("All-NaN slice encountered")
AllNaN(sc) == \A i \in DOMAIN sc : sc[i] = NaN

\* np.nanargmin(sc): the first index of the smallest entry that is not NaN
nanargmin(sc) ==
    CHOOSE i \in DOMAIN sc :
        /\ sc[i] # NaN
        /\ \A j \in DOMAIN sc : sc[j] # NaN =>
              (sc[i] < sc[j] \/ (sc[i] = sc[j] /\ i <= j))

\* the scores a candidate's computation can produce before the zero test:
\* mean_diff / (1 - mean_sm_weight_diag + 10**-10) ** 2 cast to float32
RawScores == (0..MaxScore) \cup {Inf, NaN}

\* the zero test left out: a zero score stays a score
ZeroToNaN_kept(x) == x

\* if score[cii] == 0: score[cii] = np.nan
ZeroToNaN(x) == IF x = 0 THEN NaN ELSE x

\* a rejected candidate marked with NaN instead of +infinity
RejectedScore_nan == NaN

\* else: score[cii] = np.Inf, the score of a candidate whose weights were rejected
RejectedScore == Inf

\* the comparison written with <=: a tie replaces the best so far
IsNewMin_le(s, m) == s # NaN /\ m # NaN /\ s <= m

\* if score[cii] < min_score: the candidate becomes the best so far
IsNewMin(s, m) == FloatLt(s, m)

\* the stored nonzeros a merged matrix can have on a grid of n voxels: only the
\* diagonal, exactly at the density threshold, and one above it
NnzChoices(n) == {n, n * (n \div 10), n * (n \div 10) + 1}

(***************************************************************************)
(* The arguments of run().                                                 *)
(***************************************************************************)
BwOpts == {None} \cup {Some(v) : v \in -1..1}
NLdrsOpts == {None} \cup {Some(v) : v \in -1..1}
ArgSets == [image : BOOLEAN, bw_opt : BwOpts, all_pc : BOOLEAN,
            n_ldrs : NLdrsOpts]

\* process_args rejecting only a negative --n-ldrs
NLdrsRejected_negative(n_ldrs) == n_ldrs # None /\ Val(n_ldrs) < 0

\* process_args: args.n_ldrs is not None and args.n_ldrs <= 0
NLdrsRejected(n_ldrs) == n_ldrs # None /\ Val(n_ldrs) <= 0

\* check_input without the override: --all-pc stays set beside --n-ldrs
CheckedAllPc_kept(all_pc, n_ldrs) == all_pc

\* check_input: --all-pc is ignored as --n-ldrs specified
CheckedAllPc(all_pc, n_ldrs) == IF all_pc /\ n_ldrs # None THEN FALSE ELSE all_pc

\* the positions of run() inside its try block
TryPcs == {"do_kernel_smoothing", "gcv", "save_npz", "sm_create", "sm_batches",
           "do_fpca", "EigenValues", "save_bases", "save_eigenvalues", "to_csv"}

\* the parts of the model a specification does not exercise stay as they are here
ReaderIdle ==
    /\ id_idxs = <<>>
    /\ img_N = 0
    /\ rd_pc = "idle"
    /\ rd_i = 0
    /\ rd_batch_size = 0
    /\ rd_batches = <<>>

SmootherIdle ==
    /\ sm_pc = "idle"
    /\ sm_N = 0
    /\ sm_pending = {}
    /\ sm_nnz = 0
    /\ sm_ret = NoWeight

FpcaIdle ==
    /\ f_pc = "idle"
    /\ f_given = [all_pc |-> FALSE, n_ldrs |-> None]
    /\ f_args = [all_pc |-> FALSE, n_ldrs |-> None]
    /\ n_sub = 0
    /\ n_voxels = 0
    /\ n_top = 0
    /\ batch_size = 0
    /\ n_batches = 0
    /\ f_i = 0
    /\ fitted = <<>>
    /\ imputed = <<>>

EigenIdle ==
    /\ e_pc = "idle"
    /\ imputed_values = <<>>
    /\ eff_num = <<>>
    /\ prop_ldrs = <<>>

\* no scratch file
NoNpz == [exists |-> FALSE, matrix |-> <<>>]

TasksIdle ==
    /\ t_pc = "idle"
    /\ t_N = 0
    /\ t_len = 0
    /\ t_B = 0
    /\ t_data = <<>>
    /\ t_cii = 0
    /\ t_pending = {}
    /\ t_dok = <<>>
    /\ t_k = 0
    /\ t_diff = <<>>
    /\ t_score = <<>>
    /\ t_min_score = Inf
    /\ t_npz = NoNpz
    /\ t_scored = <<>>
    /\ t_ret = <<>>

ArgsIdle ==
    /\ a_pc = "idle"
    /\ a_module = "none"
    /\ a_given = <<>>
    /\ a_args = <<>>
    /\ a_log = <<>>

PoolIdle ==
    /\ p_pc = "idle"
    /\ p_N = 0
    /\ p_len = 0
    /\ p_B = 0
    /\ p_cii = 0
    /\ p_reach = 0
    /\ p_fut = <<>>
    /\ p_yielded = {}
    /\ p_dok = <<>>
    /\ p_writers = {}
    /\ p_k = 0
    /\ p_diff = <<>>
    /\ p_score = <<>>
    /\ p_min_score = Inf
    /\ p_b = 0
    /\ p_mean = 0
    /\ p_divided = 0
    /\ p_updates = <<>>

VgwasIdle ==
    /\ v_pc = "idle"
    /\ v_fn = "none"
    /\ v_B = 0
    /\ v_fut = <<>>
    /\ v_lock = -1
    /\ v_acc = 0
    /\ v_yielded = {}
    /\ v_ret = <<>>

WriteIdle ==
    /\ w_pc = "idle"
    /\ w_ids = <<>>
    /\ w_N = 0
    /\ w_batch_size = 0
    /\ w_i = 0
    /\ start_idx = 0
    /\ end_idx = 0
    /\ sm_images = <<>>
    /\ subject_wise_mean = <<0, 1>>
    /\ w_ranges = <<>>

VoxelsIdle ==
    /\ x_pc = "idle"
    /\ x_q = 0
    /\ all_sig_idxs_voxel = <<>>
    /\ x_pending = {}
    /\ results_dict = <<>>
    /\ next_write_i = 0
    /\ x_file = <<>>

BedIdle ==
    /\ b_m = 0
    /\ currentSNP = 0
    /\ geno = <<>>
    /\ b_calls = <<>>

\* the specifications that follow check_accepted_args at rest
LaterIdle == PoolIdle /\ VgwasIdle /\ WriteIdle /\ VoxelsIdle /\ BedIdle

\* the other functions at rest
OthersIdle == EigenIdle /\ TasksIdle /\ ArgsIdle /\ LaterIdle

PipeStart(start, argset) ==
    /\ pc = start
    /\ args \in argset
    /\ exc = "none"
    /\ N = 0
    /\ bw_len = 0
    /\ cii = 0
    /\ score = <<>>
    /\ min_score = Inf
    /\ built = <<>>
    /\ merged = <<>>
    /\ raw = <<>>
    /\ evaluated = <<>>
    /\ saves = <<>>
    /\ temp_npz = Absent
    /\ sm_images_h5 = Absent
    /\ out_files = {}
    /\ sparse_sm_weight = NoWeight

PipeIdle ==
    PipeStart("idle", {[image |-> FALSE, bw_opt |-> None, all_pc |-> FALSE,
                        n_ldrs |-> None]})

Init == PipeStart("process_args", ArgSets) /\ ReaderIdle /\ SmootherIdle /\ FpcaIdle /\ OthersIdle

\* process_args, called by main() before run(): it raises for a non-positive
\* --n-ldrs, and may raise for another option (a file that does not exist, a
\* non-positive --threads); it reads no image
ProcessArgs ==
    /\ pc = "process_args"
    /\ IF NLdrsRejected(args.n_ldrs)
       THEN exc' = "n_ldrs_not_positive" /\ pc' = "done"
       ELSE \/ exc' = "error" /\ pc' = "done"
            \/ exc' = exc /\ pc' = "check_input"
    /\ UNCHANGED notPipe
    /\ UNCHANGED <<args, N, bw_len, cii, score, min_score, built, merged, raw, evaluated, saves,
                   temp_npz, sm_images_h5, out_files, sparse_sm_weight>>

\* check_input, called by run() before its try block
CheckInput ==
    /\ pc = "check_input"
    /\ IF ~args.image
       THEN /\ exc' = "image_required"
            /\ pc' = "done"
            /\ args' = args
       ELSE IF args.bw_opt # None /\ Val(args.bw_opt) <= 0
       THEN /\ exc' = "bw_opt_not_positive"
            /\ pc' = "done"
            /\ args' = [args EXCEPT !.all_pc = CheckedAllPc(args.all_pc, args.n_ldrs)]
       ELSE /\ exc' = exc
            /\ pc' = "do_kernel_smoothing"
            /\ args' = [args EXCEPT !.all_pc = CheckedAllPc(args.all_pc, args.n_ldrs)]
    /\ UNCHANGED notPipe
    /\ UNCHANGED <<N, bw_len, cii, score, min_score, built, merged, raw, evaluated, saves,
                   temp_npz, sm_images_h5, out_files, sparse_sm_weight>>

\* the grids of the images of run(): around the 10 voxels from which N // 10 is not 0
PipeGrids == {MaxGrid - 2, MaxGrid - 1, MaxGrid}

\* do_kernel_smoothing up to the choice between the sweep and the override
DoKernelSmoothing ==
    /\ pc = "do_kernel_smoothing"
    /\ \E n \in PipeGrids :
        /\ N' = n
        /\ IF args.bw_opt = None
           THEN \E len \in 1..MaxCand :
                /\ bw_len' = len
                /\ score' = [i \in 0..(len - 1) |-> 0]
                /\ min_score' = Inf
                /\ cii' = 0
                /\ pc' = "gcv"
                /\ sparse_sm_weight' = sparse_sm_weight
           ELSE \E nnz \in NnzChoices(n) :
                /\ sparse_sm_weight' = SmootherResult(0, n, nnz)
                /\ pc' = "sm_create"
                /\ UNCHANGED <<bw_len, score, min_score, cii>>
    /\ UNCHANGED notPipe
    /\ UNCHANGED <<args, exc, built, merged, raw, evaluated, saves, temp_npz, sm_images_h5,
                   out_files>>

\* one iteration of the sweep of gcv, up to the call of _save_sparse_sm_weight
GcvCandidate ==
    /\ pc = "gcv"
    /\ cii < bw_len
    /\ \E nnz \in NnzChoices(N), r \in RawScores :
        LET w == SmootherResult(cii, N, nnz)
            s == ZeroToNaN(r)
        IN  /\ built' = built @@ (cii :> w)
            /\ merged' = merged @@ (cii :> nnz)
            /\ raw' = raw @@ (cii :> IF w = NoWeight THEN RejectedScore ELSE r)
            /\ evaluated' = Append(evaluated, cii)
            /\ IF w = NoWeight
               THEN /\ score' = [score EXCEPT ![cii] = RejectedScore]
                    /\ cii' = cii + 1
                    /\ UNCHANGED <<pc, min_score, temp_npz, saves>>
               ELSE /\ score' = [score EXCEPT ![cii] = s]
                    /\ IF IsNewMin(s, min_score)
                       THEN /\ min_score' = s
                            /\ temp_npz' = Partial(tocoo(w))
                            /\ saves' = Append(saves, cii)
                            /\ pc' = "save_npz"
                            /\ cii' = cii
                       ELSE /\ cii' = cii + 1
                            /\ UNCHANGED <<pc, min_score, temp_npz, saves>>
    /\ UNCHANGED notPipe
    /\ UNCHANGED <<args, exc, N, bw_len, sm_images_h5, out_files, sparse_sm_weight>>

\* sp.save_npz finishes writing {temp_path}.npz; the iteration ends
SaveNpzDone ==
    /\ pc = "save_npz"
    /\ temp_npz' = tocoo(built[cii])
    /\ cii' = cii + 1
    /\ pc' = "gcv"
    /\ UNCHANGED notPipe
    /\ UNCHANGED <<args, exc, N, bw_len, score, min_score, built, merged, raw, evaluated, saves,
                   sm_images_h5, out_files, sparse_sm_weight>>

\* gcv after the loop: np.nanargmin and the check of the minimum
GcvSelect ==
    /\ pc = "gcv"
    /\ cii = bw_len
    /\ IF AllNaN(score)
       THEN /\ exc' = "all_nan_slice"
            /\ pc' = "finally"
       ELSE IF score[nanargmin(score)] = Inf
       THEN /\ exc' = "optimal_bandwidth_invalid"
            /\ pc' = "finally"
       ELSE /\ exc' = exc
            /\ pc' = "load_npz"
    /\ UNCHANGED notPipe
    /\ UNCHANGED <<args, N, bw_len, cii, score, min_score, built, merged, raw, evaluated, saves,
                   temp_npz, sm_images_h5, out_files, sparse_sm_weight>>

\* something other than the program removes the scratch file before the reload.  The
\* file is read at the reload only: a removal earlier in the sweep with no save after
\* it has the same effect, and one followed by a save leaves a complete file.
ScratchRemoved ==
    /\ pc = "load_npz"
    /\ Exists(temp_npz)
    /\ temp_npz' = Absent
    /\ UNCHANGED notPipe
    /\ UNCHANGED <<pc, args, exc, N, bw_len, cii, score, min_score, built, merged, raw,
                   evaluated, saves, sm_images_h5, out_files, sparse_sm_weight>>

\* a reload that falls back to the matrix gcv holds in memory
load_sparse_sm_weight_fallback(f, held) == IF Exists(f) THEN todok(f) ELSE held

\* _load_sparse_sm_weight: the matrix of the file as dok, or FileNotFoundError (here
\* NoWeight) when the file does not exist; held is the matrix of the last candidate,
\* which the local variable of gcv still refers to
load_sparse_sm_weight(f, held) == IF Exists(f) THEN todok(f) ELSE NoWeight

\* gcv: sparse_sm_weight = self._load_sparse_sm_weight(temp_path) and the return
LoadNpz ==
    /\ pc = "load_npz"
    /\ LET w == load_sparse_sm_weight(temp_npz, built[bw_len - 1])
       IN  IF w = NoWeight
           THEN /\ exc' = "kernel_smoothing_failed"
                /\ pc' = "finally"
                /\ sparse_sm_weight' = sparse_sm_weight
           ELSE /\ exc' = exc
                /\ pc' = "sm_create"
                /\ sparse_sm_weight' = w
    /\ UNCHANGED notPipe
    /\ UNCHANGED <<args, N, bw_len, cii, score, min_score, built, merged, raw, evaluated, saves,
                   temp_npz, sm_images_h5, out_files>>


\* the test left out: the dataset is created whatever smoother returned
IsNotNone_always(w) == TRUE

\* if sparse_sm_weight is not None
IsNotNone(w) == w # NoWeight

\* do_kernel_smoothing: the test of the matrix and the creation of the dataset
SmCreate ==
    /\ pc = "sm_create"
    /\ IF IsNotNone(sparse_sm_weight)
       THEN /\ sm_images_h5' = H5Open(sparse_sm_weight)
            /\ pc' = "sm_batches"
            /\ exc' = exc
       ELSE /\ exc' = "bw_opt_problematic"
            /\ pc' = "finally"
            /\ sm_images_h5' = sm_images_h5
    /\ UNCHANGED notPipe
    /\ UNCHANGED <<args, N, bw_len, cii, score, min_score, built, merged, raw, evaluated, saves,
                   temp_npz, out_files, sparse_sm_weight>>

\* do_kernel_smoothing: the batches are smoothed and written, the file is closed
SmBatches ==
    /\ pc = "sm_batches"
    /\ sm_images_h5' = H5Written(sparse_sm_weight)
    /\ pc' = "do_fpca"
    /\ UNCHANGED notPipe
    /\ UNCHANGED <<args, exc, N, bw_len, cii, score, min_score, built, merged, raw, evaluated, saves,
                   temp_npz, out_files, sparse_sm_weight>>

\* run: do_fpca reads the smoothed images
DoFpca ==
    /\ pc = "do_fpca"
    /\ pc' = "EigenValues"
    /\ UNCHANGED notPipe
    /\ UNCHANGED <<args, exc, N, bw_len, cii, score, min_score, built, merged, raw, evaluated, saves,
                   temp_npz, sm_images_h5, out_files, sparse_sm_weight>>

\* run: EigenValues(values, bases.shape[0])
MakeEigenValues ==
    /\ pc = "EigenValues"
    /\ pc' = "save_bases"
    /\ UNCHANGED notPipe
    /\ UNCHANGED <<args, exc, N, bw_len, cii, score, min_score, built, merged, raw, evaluated, saves,
                   temp_npz, sm_images_h5, out_files, sparse_sm_weight>>

\* run: the three outputs, one after the other
SaveOutput ==
    /\ \/ /\ pc = "save_bases"
          /\ out_files' = out_files \cup {"bases"}
          /\ pc' = "save_eigenvalues"
       \/ /\ pc = "save_eigenvalues"
          /\ out_files' = out_files \cup {"eigenvalues"}
          /\ pc' = "to_csv"
       \/ /\ pc = "to_csv"
          /\ out_files' = out_files \cup {"ldrs_prop_var"}
          /\ pc' = "finally"
    /\ UNCHANGED notPipe
    /\ UNCHANGED <<args, exc, N, bw_len, cii, score, min_score, built, merged, raw, evaluated, saves,
                   temp_npz, sm_images_h5, sparse_sm_weight>>

\* a statement inside the try block of run raises (a failed task, an I/O error ...);
\* with None for a matrix nothing is executed between the return of smoother and the
\* raise of do_kernel_smoothing
Raise ==
    /\ pc \in TryPcs
    /\ pc = "gcv" => cii < bw_len
    /\ pc = "sm_create" => IsNotNone(sparse_sm_weight)
    /\ exc' = "error"
    /\ pc' = "finally"
    /\ UNCHANGED notPipe
    /\ UNCHANGED <<args, N, bw_len, cii, score, min_score, built, merged, raw, evaluated, saves,
                   temp_npz, sm_images_h5, out_files, sparse_sm_weight>>

\* a cleanup that removes only files that were completely written
RemoveIfExists_complete(f) == IF f.fmt \in {"coo", "h5"} THEN Absent ELSE f

\* if os.path.exists(f): os.remove(f)
RemoveIfExists(f) == IF Exists(f) THEN Absent ELSE f

\* run: the finally block; the exception, if any, then leaves run
Finally ==
    /\ pc = "finally"
    /\ temp_npz' = RemoveIfExists(temp_npz)
    /\ sm_images_h5' = RemoveIfExists(sm_images_h5)
    /\ pc' = "done"
    /\ UNCHANGED notPipe
    /\ UNCHANGED <<args, exc, N, bw_len, cii, score, min_score, built, merged, raw, evaluated, saves,
                   out_files, sparse_sm_weight>>

Next ==
    \/ ProcessArgs
    \/ CheckInput
    \/ DoKernelSmoothing
    \/ GcvCandidate
    \/ SaveNpzDone
    \/ GcvSelect
    \/ ScratchRemoved
    \/ LoadNpz
    \/ SmCreate
    \/ SmBatches
    \/ DoFpca
    \/ MakeEigenValues
    \/ SaveOutput
    \/ Raise
    \/ Finally

Spec == Init /\ [][Next]_vars


(***************************************************************************)
(* Properties of the GCV sweep and of run().                               *)
(***************************************************************************)
\* gcv has returned normally to do_kernel_smoothing
GcvReturned == pc = "sm_create" /\ args.bw_opt = None

\* the selection of gcv has raised
GcvSelectRaised ==
    exc \in {"all_nan_slice", "optimal_bandwidth_invalid", "kernel_smoothing_failed"}

\* a score that is neither NaN nor infinite
Valid(x) == x # NaN /\ x # Inf

\* candidate i was written to the scratch file at some point of the sweep
Persisted(i) == \E k \in 1..Len(saves) : saves[k] = i

\* C1: when gcv returns normally, the matrix it returns is the one built for the
\* candidate np.nanargmin reports, that candidate has the smallest valid score of
\* all candidates, and it is the candidate whose weights were persisted last.
C1_ReturnsWeightsOfArgmin ==
    GcvReturned =>
        LET which_min == nanargmin(score)
        IN  /\ Valid(score[which_min])
            /\ \A j \in 0..(bw_len - 1) : Valid(score[j]) => score[which_min] <= score[j]
            /\ sparse_sm_weight = built[which_min]
            /\ temp_npz = tocoo(built[which_min])
            /\ saves # <<>>
            /\ saves[Len(saves)] = which_min

\* C1 witness: a sweep returned in which two candidates tie on the smallest score and
\* an invalid candidate precedes the winner
C1_Witness ==
    /\ GcvReturned
    /\ \E i, j \in 0..(bw_len - 1) :
          /\ i < j
          /\ score[i] = score[nanargmin(score)]
          /\ score[j] = score[i]
    /\ \E i \in 0..(bw_len - 1) : i < nanargmin(score) /\ ~Valid(score[i])

\* C2: when run has terminated, normally or through an exception, neither the
\* scratch file nor the smoothed image dataset exists.
C2_FilesRemovedAtExit ==
    pc = "done" => ~Exists(temp_npz) /\ ~Exists(sm_images_h5)

\* C2 witness: run ended through an exception raised while the outputs were being
\* written, after both files had been created
C2_Witness ==
    /\ pc = "done"
    /\ exc = "error"
    /\ saves # <<>>
    /\ "bases" \in out_files
    /\ "ldrs_prop_var" \notin out_files

\* C4, as claimed: if every candidate of a finished sweep is invalid (+infinity or
\* NaN, in any mix), gcv raises the 'optimal bandwidth is invalid' error and
\* returns no matrix.
C4_AllInvalidRaisesDedicatedError ==
    (/\ args.bw_opt = None
     /\ bw_len > 0
     /\ pc \in {"sm_create", "finally"}
     /\ Len(evaluated) = bw_len
     /\ cii = bw_len
     /\ \A i \in 0..(bw_len - 1) : ~Valid(score[i]))
    => (exc = "optimal_bandwidth_invalid" /\ sparse_sm_weight = NoWeight)

\* C5, as claimed: the scratch file is never observable partially written.
C5_ScratchNeverPartial == temp_npz.fmt # "partial"

\* C7: a rejected candidate gets score +infinity and is never persisted; the
\* candidates are evaluated once each in list order, one at a time; and the
\* selection happens only after the last candidate.
C7_RejectedSkippedSweepContinues ==
    /\ \A k \in 1..Len(evaluated) : evaluated[k] = k - 1
    /\ Len(evaluated) \in {cii, cii + 1}
    /\ pc = "gcv" => Len(evaluated) = cii
    /\ pc = "save_npz" => Len(evaluated) = cii + 1
    /\ \A i \in DOMAIN built :
          built[i] = NoWeight => (score[i] = Inf /\ ~Persisted(i))
    /\ (GcvReturned \/ GcvSelectRaised) => Len(evaluated) = bw_len

\* C7 witness: a sweep returned normally although its first candidate was rejected
C7_Witness ==
    /\ GcvReturned
    /\ bw_len >= 2
    /\ built[0] = NoWeight
    /\ Len(evaluated) = bw_len

MaxRows == 5
\* largest batch size the grids of the reader specification are chosen for
MaxBatch == 3

\* np.dtype(np.float32).itemsize
FloatBytes == 4
\* the ceiling of 5 (GB) on memory_use
CeilingGB == 5
\* 1024**3
GiB == 1073741824

\* the values n * N for which memory_use = n * N * 4 / 1024**3 is at most 5
CeilingCells == CeilingGB * (GiB \div FloatBytes)

\* memory_use <= 5, for n rows of N values (n * N <= CeilingCells without the product)
FitsInMemory(n, nN) == n = 0 \/ nN = 0 \/ nN <= CeilingCells \div n

\* batch_size of image_reader; int(n / memory_use * 5) is the integer part of
\* CeilingCells / N
ReaderBatchSize(n, nN) == IF FitsInMemory(n, nN) THEN n ELSE CeilingCells \div nN

Min(a, b) == IF a <= b THEN a ELSE b
Max(a, b) == IF a >= b THEN a ELSE b

\* id_idxs[i : i + b], a Python slice of a 0-based array
Slice(a, i, b) == SubSeq(a, i + 1, Min(i + b, Len(a)))

\* the elements of the set S of integers in ascending order
RECURSIVE Ascending(_)
Ascending(S) ==
    IF S = {} THEN <<>>
    ELSE LET m == CHOOSE x \in S : \A y \in S : x <= y
         IN  <<m>> \o Ascending(S \ {m})

\* np.arange(len(ids))[ids.isin(common_ids)]: the retained rows, ascending
IdIdxChoices == {Ascending(S) : S \in SUBSET (0..(MaxRows - 1))}

\* grids small enough for one batch, grids that force batches of 1..MaxBatch rows,
\* and a grid of which a single row exceeds the ceiling
ReaderGrids == {1} \cup {CeilingCells \div k : k \in 1..MaxBatch} \cup {CeilingCells + 1}

RECURSIVE Concat(_)
Concat(chunks) ==
    IF chunks = <<>> THEN <<>> ELSE Head(chunks) \o Concat(Tail(chunks))

InitReader ==
    /\ PipeIdle /\ SmootherIdle /\ FpcaIdle /\ OthersIdle
    /\ id_idxs \in IdIdxChoices
    /\ img_N \in ReaderGrids
    /\ rd_pc = "start"
    /\ rd_i = 0
    /\ rd_batch_size = 0
    /\ rd_batches = <<>>

\* image_reader up to the creation of range(0, n, batch_size), which raises
\* ValueError when batch_size is 0
ReaderStart ==
    /\ rd_pc = "start"
    /\ rd_batch_size' = ReaderBatchSize(Len(id_idxs), img_N)
    /\ rd_pc' = IF rd_batch_size' = 0 THEN "raised" ELSE "loop"
    /\ UNCHANGED notReader
    /\ UNCHANGED <<id_idxs, img_N, rd_i, rd_batches>>

\* one iteration of the loop: the chunk id_idxs[i : i + batch_size] is yielded
ReaderYield ==
    /\ rd_pc = "loop"
    /\ rd_i < Len(id_idxs)
    /\ rd_batches' = Append(rd_batches, Slice(id_idxs, rd_i, rd_batch_size))
    /\ rd_i' = rd_i + rd_batch_size
    /\ UNCHANGED notReader
    /\ UNCHANGED <<id_idxs, img_N, rd_pc, rd_batch_size>>

\* the range is exhausted: the generator ends
ReaderStop ==
    /\ rd_pc = "loop"
    /\ rd_i >= Len(id_idxs)
    /\ rd_pc' = "done"
    /\ UNCHANGED notReader
    /\ UNCHANGED <<id_idxs, img_N, rd_i, rd_batch_size, rd_batches>>

NextReader == ReaderStart \/ ReaderYield \/ ReaderStop

SpecReader == InitReader /\ [][NextReader]_vars

\* C3, as claimed: for every subject count and grid size the computed batch size is
\* never 0, no yielded batch is empty, and the batches of a finished reader,
\* concatenated in yield order, are id_idxs.
C3_ReaderPartitionsAllRows ==
    /\ rd_pc \in {"loop", "done", "raised"} => rd_batch_size # 0
    /\ rd_pc # "raised"
    /\ \A k \in 1..Len(rd_batches) : rd_batches[k] # <<>>
    /\ rd_pc = "done" => Concat(rd_batches) = id_idxs


(***************************************************************************)
(* LocalLinear.smoother: the merge of the per-voxel tasks and the density  *)
(* check.  What a task returns (_sm_weight) is an input: the number of     *)
(* weights of its voxel whose magnitude exceeds 1/N.                       *)
(***************************************************************************)
InitSmoother ==
    /\ PipeIdle /\ ReaderIdle /\ FpcaIdle /\ OthersIdle
    /\ sm_N \in 1..MaxGrid
    /\ sm_pending = 0..(sm_N - 1)
    /\ sm_nnz = 0
    /\ sm_pc = "as_completed"
    /\ sm_ret = NoWeight

\* for future in as_completed(futures): the row of voxel idx is stored
SmootherMerge ==
    /\ sm_pc = "as_completed"
    /\ \E idx \in sm_pending, k \in 0..Min(MaxRowNnz, sm_N) :
        /\ sm_pending' = sm_pending \ {idx}
        /\ sm_nnz' = sm_nnz + k
    /\ UNCHANGED notSmoother
    /\ UNCHANGED <<sm_pc, sm_N, sm_ret>>

\* every future is merged: the density check, then None or the matrix
SmootherReturn ==
    /\ sm_pc = "as_completed"
    /\ sm_pending = {}
    /\ sm_ret' = SmootherResult(0, sm_N, sm_nnz)
    /\ sm_pc' = "returned"
    /\ UNCHANGED notSmoother
    /\ UNCHANGED <<sm_N, sm_pending, sm_nnz>>

NextSmoother == SmootherMerge \/ SmootherReturn

SpecSmoother == InitSmoother /\ [][NextSmoother]_vars

\* the integer part of n / 10
TenthFloor(n) == CHOOSE k \in 0..n : 10 * k <= n /\ n < 10 * (k + 1)

\* C6, as claimed: smoother returns None if and only if the mean number of nonzero
\* weights per grid-point (sm_nnz / sm_N) exceeds N / 10, and otherwise returns the
\* N-by-N matrix.
C6_RejectsIffMeanAboveTenth ==
    sm_pc = "returned" =>
        /\ sm_ret = NoWeight <=> 10 * sm_nnz > sm_N * sm_N
        /\ sm_ret # NoWeight => sm_ret = DokMatrix(0, sm_N, sm_nnz)

\* C6, amended: smoother returns None if and only if the mean number of nonzero
\* weights per grid-point exceeds the integer part of N / 10 (N // 10), and
\* otherwise returns the N-by-N matrix holding every merged weight.
C6_RejectsIffMeanAboveTenthFloor ==
    sm_pc = "returned" =>
        /\ sm_ret = NoWeight <=> sm_nnz > sm_N * TenthFloor(sm_N)
        /\ sm_ret # NoWeight =>
              (sm_ret.shape = sm_N /\ sm_ret.nnz = sm_nnz /\ sm_ret.fmt = "dok")

\* C6 witness: on a grid of more than 10 voxels a matrix is rejected whose mean is
\* above N // 10 and not above N / 10
C6_Witness ==
    /\ sm_pc = "returned"
    /\ sm_N > 10
    /\ sm_ret = NoWeight
    /\ 10 * sm_nnz <= sm_N * sm_N


(***************************************************************************)
(* FPCA: the number of components and the batch size of the incremental    *)
(* PCA, for the arguments as check_input leaves them.                      *)
(***************************************************************************)
\* largest of the small subject, voxel and component counts
MaxSmall == 6
\* most multiples of a threshold among the subject counts
MaxMult == 3

\* if max_n_pc <= 15000
PcCap == 15000
\* if n_sub <= 50000, n_sub // 50000
BatchCap == 50000
\* self.n_top > 2000
TopCap == 2000
\* n_sub > 20000, n_sub // i > 20000
SubCap == 20000

\* _get_n_top
get_n_top(n_ldrs, max_n_pc, compute_all) ==
    IF compute_all THEN max_n_pc
    ELSE IF n_ldrs # None
         THEN IF Val(n_ldrs) > max_n_pc THEN max_n_pc ELSE Val(n_ldrs)
         ELSE max_n_pc \div 5

\* the loop of _get_batch_size: i = 2; while n_sub // i > 20000: i += 1
RECURSIVE SplitCount(_, _)
SplitCount(n, i) == IF n \div i > SubCap THEN SplitCount(n, i + 1) ELSE i

\* _get_batch_size before its final np.max
raw_batch_size(max_n_pc, n, top) ==
    IF max_n_pc <= PcCap
    THEN IF n <= BatchCap THEN n ELSE n \div (n \div BatchCap + 1)
    ELSE IF top > TopCap \/ n > SubCap THEN n \div SplitCount(n, 2) ELSE n

\* _get_batch_size returning the adaptive size alone, without np.max
get_batch_size_no_max(max_n_pc, n, top) == raw_batch_size(max_n_pc, n, top)

\* _get_batch_size
get_batch_size(max_n_pc, n, top) == Max(raw_batch_size(max_n_pc, n, top), top)

\* counts around the multiples of a threshold
Around(t) == {m * t + d : m \in 1..MaxMult, d \in -1..1}

SubCounts == (1..MaxSmall) \cup Around(PcCap) \cup Around(SubCap) \cup Around(BatchCap)
VoxelCounts == (1..MaxSmall) \cup {PcCap, PcCap + 1, BatchCap + 1}
LdrCounts == (1..MaxSmall) \cup {TopCap, TopCap + 1, PcCap + 1, BatchCap + 1}

InitFPCA ==
    /\ PipeIdle /\ ReaderIdle /\ SmootherIdle /\ OthersIdle
    /\ f_pc = "supplied"
    /\ f_given \in [all_pc : BOOLEAN, n_ldrs : {None} \cup {Some(k) : k \in LdrCounts}]
    /\ f_args = f_given
    /\ n_sub \in SubCounts
    /\ n_voxels \in VoxelCounts
    /\ n_top = 0
    /\ batch_size = 0
    /\ n_batches = 0
    /\ f_i = 0
    /\ fitted = <<>>
    /\ imputed = <<>>

\* check_input: what it does to args.all_pc
FpcaCheckInput ==
    /\ f_pc = "supplied"
    /\ f_args' = [f_args EXCEPT !.all_pc = CheckedAllPc(f_args.all_pc, f_args.n_ldrs)]
    /\ f_pc' = "checked"
    /\ UNCHANGED notFpca
    /\ UNCHANGED <<f_given, n_sub, n_voxels, n_top, batch_size, n_batches,
                   f_i, fitted, imputed>>

\* FPCA.__init__, called by do_fpca with args.all_pc and args.n_ldrs
FPCAInit ==
    /\ f_pc = "checked"
    /\ LET max_n_pc == Min(n_sub, n_voxels)
           top == get_n_top(f_args.n_ldrs, max_n_pc, f_args.all_pc)
           size == get_batch_size(max_n_pc, n_sub, top)
       IN  /\ n_top' = top
           /\ batch_size' = size
           /\ n_batches' = n_sub \div size
    /\ f_pc' = "constructed"
    /\ UNCHANGED notFpca
    /\ UNCHANGED <<f_given, f_args, n_sub, n_voxels, f_i, fitted, imputed>>

\* max_avail_n_sub taken to be every subject
max_avail_n_sub_all(nb, size) == n_sub

\* max_avail_n_sub = fpca.n_batches * fpca.batch_size
max_avail_n_sub(nb, size) == nb * size

\* one iteration of the loop of do_fpca over range(0, max_avail_n_sub, batch_size):
\* partial_fit(sm_images[i : i + batch_size] - subject_wise_mean); a slice stops at
\* the last row of the dataset
PartialFit ==
    /\ f_pc = "constructed"
    /\ f_i < max_avail_n_sub(n_batches, batch_size)
    /\ fitted' = Append(fitted, <<f_i, Min(f_i + batch_size, n_sub)>>)
    /\ f_i' = f_i + batch_size
    /\ UNCHANGED notFpca
    /\ UNCHANGED <<f_pc, f_given, f_args, n_sub, n_voxels, n_top, batch_size, n_batches,
                   imputed>>

\* the end of the loop: do_fpca returns the n_top eigenvalues and the bases
DoFpcaReturn ==
    /\ f_pc = "constructed"
    /\ f_i >= max_avail_n_sub(n_batches, batch_size)
    /\ f_pc' = "fitted"
    /\ UNCHANGED notFpca
    /\ UNCHANGED <<f_given, f_args, n_sub, n_voxels, n_top, batch_size, n_batches,
                   f_i, fitted, imputed>>

\* bases.shape of do_fpca: bases = fpca.ipca.components_.T, one row per voxel
BasesShape == <<n_voxels, n_top>>

\* np.arange(from, to) and the part of an array it indexes, as the pair of its ends
Arange(from, to) == <<from, Max(from, to)>>

\* _bspline: np.concatenate([self.values, np.exp(y_pred)]) with
\* x_pred = np.arange(n_values, self.max_n_pc); a segment is the array it comes
\* from and the ranks it holds
bspline(n_values, max_n_pc) ==
    << [src |-> "values", ranks |-> Arange(0, n_values)],
       [src |-> "exp(y_pred)", ranks |-> Arange(n_values, max_n_pc)] >>

\* run: eigenvalues = EigenValues(values, bases.shape[0])
NewEigenValues ==
    /\ f_pc = "fitted"
    /\ imputed' = bspline(n_top, BasesShape[1])
    /\ f_pc' = "extrapolated"
    /\ UNCHANGED notFpca
    /\ UNCHANGED <<f_given, f_args, n_sub, n_voxels, n_top, batch_size, n_batches,
                   f_i, fitted>>

NextFPCA == FpcaCheckInput \/ FPCAInit \/ PartialFit \/ DoFpcaReturn \/ NewEigenValues

SpecFPCA == InitFPCA /\ [][NextFPCA]_vars

\* the smaller of the subject count and the grid-point count
MaxPossible == IF n_sub <= n_voxels THEN n_sub ELSE n_voxels

\* C9: top_k is min(subjects, grid-points) when compute-all is requested without a
\* count, min(requested, max_possible) when a count is requested (also when
\* compute-all is requested with it), and the integer part of max_possible / 5
\* otherwise.
C9_TopKPolicy ==
    f_pc = "constructed" =>
        IF f_given.n_ldrs # None
        THEN /\ n_top <= Val(f_given.n_ldrs)
             /\ n_top <= MaxPossible
             /\ n_top \in {Val(f_given.n_ldrs), MaxPossible}
        ELSE IF f_given.all_pc
        THEN n_top = MaxPossible
        ELSE 5 * n_top <= MaxPossible /\ MaxPossible < 5 * (n_top + 1)

\* C9 witness: compute-all and a count smaller than max_possible were both requested
C9_Witness ==
    /\ f_pc = "constructed"
    /\ f_given.all_pc
    /\ f_given.n_ldrs # None
    /\ Val(f_given.n_ldrs) < MaxPossible
    /\ n_top = Val(f_given.n_ldrs)

\* C10: the batch size is never below top_k, never above the subject count, and
\* above 50000 only if top_k is.
C10_BatchSizeBounds ==
    f_pc = "constructed" =>
        /\ batch_size >= n_top
        /\ batch_size <= n_sub
        /\ batch_size > BatchCap => n_top > BatchCap

\* C10 witness: the adaptive size is below top_k, which is above 50000, and the
\* batch size is top_k
C10_Witness ==
    /\ f_pc = "constructed"
    /\ n_top > BatchCap
    /\ n_sub \div SplitCount(n_sub, 2) < n_top
    /\ batch_size = n_top

\* C28, as claimed: for every subject count and grid-point count of at least 1 and
\* every accepted component request, 1 <= top_k <= min(subjects, grid-points) and
\* n_batches = subjects // batch_size >= 1, so that do_fpca folds at least one batch
\* with at least one component.
C28_AtLeastOneComponentAndBatch ==
    f_pc \in {"constructed", "fitted", "extrapolated"} =>
        /\ 1 <= n_top
        /\ n_top <= MaxPossible
        /\ batch_size >= 1
        /\ n_batches >= 1
        /\ n_batches * batch_size <= n_sub
        /\ n_sub < (n_batches + 1) * batch_size
        /\ f_pc # "constructed" => Len(fitted) >= 1

\* the configurations the fPCA module refuses
InvalidConfig(a) ==
    \/ ~a.image
    \/ a.bw_opt # None /\ Val(a.bw_opt) <= 0
    \/ a.n_ldrs # None /\ Val(a.n_ldrs) <= 0

\* C16: with --image missing, --bw-opt non-positive or --n-ldrs non-positive the run
\* ends with an error raised by process_args or check_input, and at no point has it
\* read the image, computed a weight matrix, or created a scratch or output file.
C16_InvalidConfigRejectedFirst ==
    InvalidConfig(args) =>
        /\ pc \in {"process_args", "check_input", "done"}
        /\ pc = "done" => exc # "none"
        /\ N = 0
        /\ built = <<>> /\ sparse_sm_weight = NoWeight
        /\ saves = <<>> /\ temp_npz = Absent
        /\ sm_images_h5 = Absent
        /\ out_files = {}

\* C16 witness: a run with an image and a valid bandwidth was refused for --n-ldrs 0
C16_Witness ==
    /\ pc = "done"
    /\ exc = "n_ldrs_not_positive"
    /\ args.image
    /\ args.bw_opt = None
    /\ args.n_ldrs = Some(0)

\* the candidates whose only retained weights are the N on the diagonal
DiagonalOnly == {i \in DOMAIN merged : merged[i] = N}

ValidBefore(k) == {i \in 0..(k - 1) : Valid(score[i])}

\* the earliest of the lowest-scoring valid candidates before position k
EarliestLowest(k) ==
    CHOOSE i \in ValidBefore(k) :
        \A j \in ValidBefore(k) : score[i] < score[j] \/ (score[i] = score[j] /\ i <= j)

\* candidate i scored strictly lower than every valid candidate before it
StrictlyBetter(i) == Valid(score[i]) /\ \A j \in ValidBefore(i) : score[i] < score[j]

\* C21: during the sweep the scratch file is written for a candidate exactly when
\* its score is valid and strictly lower than every valid score before it, each
\* candidate at most once; a candidate with an equal, higher, NaN or infinite score
\* leaves the file alone, so that after each candidate the file holds the weights of
\* the earliest lowest-scoring valid candidate so far (and does not exist if there
\* is none).
C21_ScratchHoldsEarliestLowest ==
    /\ \A k \in 1..Len(saves) : saves[k] \in DOMAIN built /\ StrictlyBetter(saves[k])
    /\ \A k \in 1..(Len(saves) - 1) : saves[k] < saves[k + 1]
    /\ \A i \in DOMAIN built : StrictlyBetter(i) => Persisted(i)
    /\ pc = "gcv" =>
          temp_npz = IF ValidBefore(cii) = {} THEN Absent
                     ELSE tocoo(built[EarliestLowest(cii)])

\* C21 witness: a sweep of three candidates has ended in which the file was written
\* twice, the last candidate tied with the best one and the file still holds the
\* earlier of the two
C21_Witness ==
    /\ pc = "gcv"
    /\ cii = 3
    /\ bw_len = 3
    /\ saves = <<0, 1>>
    /\ score[2] = score[1]
    /\ temp_npz = tocoo(built[1])

\* C26: if the scratch file does not exist when gcv reloads the winner,
\* _load_sparse_sm_weight raises the 'Kernel smoothing failed' FileNotFoundError and
\* gcv returns nothing: do_kernel_smoothing receives no matrix, neither the one of the
\* last candidate still in memory nor another candidate's, no smoothed image dataset
\* is created and no output is written.
C26_AbsentScratchIsFatal ==
    [][/\ (pc = "load_npz" /\ ~Exists(temp_npz)) =>
             (pc' = "finally" /\ exc' = "kernel_smoothing_failed")
       /\ exc' = "kernel_smoothing_failed" =>
             /\ pc' \in {"finally", "done"}
             /\ sparse_sm_weight' = NoWeight
             /\ sm_images_h5' = Absent
             /\ out_files' = {}]_vars

\* C26 witness: the reload failed after a sweep whose last candidate, not the winner,
\* left its matrix in memory
C26_Witness ==
    /\ exc = "kernel_smoothing_failed"
    /\ pc = "finally"
    /\ temp_npz = Absent
    /\ saves # <<>>
    /\ built[bw_len - 1] # NoWeight
    /\ nanargmin(score) # bw_len - 1

\* what holds in every state of a run with a bandwidth override
OverrideInv ==
    args.bw_opt # None =>
        /\ pc \notin {"gcv", "save_npz", "load_npz"}
        /\ bw_len = 0 /\ score = <<>> /\ evaluated = <<>> /\ built = <<>>
        /\ saves = <<>> /\ temp_npz = Absent
        /\ (N # 0 /\ sparse_sm_weight = NoWeight) =>
              /\ pc \in {"sm_create", "finally", "done"}
              /\ pc # "sm_create" => exc = "bw_opt_problematic"
              /\ sm_images_h5 = Absent
              /\ out_files = {}
        /\ exc = "bw_opt_problematic" => (N # 0 /\ sparse_sm_weight = NoWeight)

\* what holds of every step of a run with a bandwidth override: smoother is called in
\* one step only, the first of do_kernel_smoothing
OverrideStep ==
    (args.bw_opt # None /\ sparse_sm_weight' # sparse_sm_weight) =>
        (pc = "do_kernel_smoothing" /\ pc' = "sm_create" /\ sparse_sm_weight'.cand = 0)

\* C29: with a bandwidth override the GCV sweep is never run and no scratch file is
\* written; smoother is invoked once, with the override; if it rejects the bandwidth
\* (returns None), do_kernel_smoothing raises the '--bw-opt may be problematic'
\* error, the smoothed image dataset is never created and no bases, eigenvalue or
\* table output is written.
C29_OverrideSkipsSweep == [](OverrideInv) /\ [][OverrideStep]_vars

\* C29 witness: a run with a positive override ended with the error after smoother
\* rejected the bandwidth
C29_Witness ==
    /\ pc = "done"
    /\ args.bw_opt = Some(1)
    /\ exc = "bw_opt_problematic"
    /\ N # 0
    /\ out_files = {}

\* the number of rows the loop of do_fpca covers
Folded == n_batches * batch_size

\* C11: do_fpca hands partial_fit exactly n_batches * batch_size rows, with
\* n_batches the integer part of subjects / batch_size, as full batches of
\* batch_size rows each, in ascending row order and each row at most once; no row from
\* n_batches * batch_size on is ever handed to partial_fit.
C11_FoldsFullBatchesInOrder ==
    f_pc \in {"constructed", "fitted", "extrapolated"} =>
        /\ n_batches = n_sub \div batch_size
        /\ Len(fitted) <= n_batches
        /\ \A k \in 1..Len(fitted) :
              /\ fitted[k] = <<(k - 1) * batch_size, k * batch_size>>
              /\ fitted[k][2] <= Folded
        /\ f_pc # "constructed" => Len(fitted) = n_batches

\* C11 witness: two batches were folded and a remainder of rows was left out
C11_Witness ==
    /\ f_pc = "fitted"
    /\ Len(fitted) >= 2
    /\ Folded < n_sub

\* length of the imputed eigenvalues
RECURSIVE ImputedLen(_)
ImputedLen(segs) ==
    IF segs = <<>> THEN 0
    ELSE (Head(segs).ranks[2] - Head(segs).ranks[1]) + ImputedLen(Tail(segs))

\* C12: the eigenvalue vector that run() saves has length min(subjects, grid-points),
\* and its first top_k entries are the computed eigenvalues in their order, the
\* entries of rank top_k and above being the predictions.
C12_SpectrumLengthAndPrefix ==
    f_pc = "extrapolated" =>
        /\ ImputedLen(imputed) = MaxPossible
        /\ imputed[1] = [src |-> "values", ranks |-> <<0, n_top>>]
        /\ imputed[2].src = "exp(y_pred)"
        /\ imputed[2].ranks[1] = n_top


(***************************************************************************)
(* EigenValues: the effective number of independent voxels and the table   *)
(* of LDR counts, computed from self.imputed_values.  Eigenvalues are      *)
(* modelled by the integers 0..MaxEig and quotients by exact fractions.    *)
(***************************************************************************)
\* largest eigenvalue
MaxEig == 4
\* longest imputed spectrum
MaxSpectrum == 4

\* the proportions of _print_prop_ldr, in percent: [0.7, 0.75, 0.8, 0.85, 0.9, 0.95]
Props == {70, 75, 80, 85, 90, 95}

\* np.sum(a[:k])
RECURSIVE SumTo(_, _)
SumTo(a, k) == IF k = 0 THEN 0 ELSE a[k] + SumTo(a, k - 1)

\* np.sum(a)
Sum(a) == SumTo(a, Len(a))

\* np.cumsum(a)
cumsum(a) == [k \in 1..Len(a) |-> SumTo(a, k)]

\* a sequence in descending order
Descending(a) == \A k \in 1..(Len(a) - 1) : a[k] >= a[k + 1]

\* the spectra: singular values come in descending order, and the first is positive
Spectra ==
    UNION {{a \in [1..len -> 0..MaxEig] : a[1] >= 1 /\ Descending(a)} : len \in 1..MaxSpectrum}

\* the effective number with the sum of the normalised values left unsquared
eff_num_unsquared(a) ==
    LET d == a[1]
        norm_values == [k \in 1..Len(a) |-> <<a[k], d>>]
        total == <<Sum([k \in 1..Len(a) |-> norm_values[k][1]]), d>>
        squares == <<Sum([k \in 1..Len(a) |-> norm_values[k][1] * norm_values[k][1]]), d * d>>
    IN  <<total[1] * squares[2], total[2] * squares[1]>>

\* _eff_num: norm_values = imputed_values / imputed_values[0], then
\* np.sum(norm_values) ** 2 / np.sum(norm_values ** 2); every normalised value is the
\* fraction <<a[k], d>>, and the result is the fraction <<numerator, denominator>>
eff_num_of(a) ==
    LET d == a[1]
        norm_values == [k \in 1..Len(a) |-> <<a[k], d>>]
        total == <<Sum([k \in 1..Len(a) |-> norm_values[k][1]]), d>>
        squares == <<Sum([k \in 1..Len(a) |-> norm_values[k][1] * norm_values[k][1]]), d * d>>
    IN  <<total[1] * total[1] * squares[2], total[2] * total[2] * squares[1]>>

\* prop_var >= prop in place of prop_var <= prop
prop_var_le_flipped(cum, total, prop) == 100 * cum >= prop * total

\* prop_var <= prop for one entry of prop_var = np.cumsum(values) / np.sum(values)
prop_var_le(cum, total, prop) == 100 * cum <= prop * total

\* np.sum(prop_var <= prop) + 1
n_ldrs_for(a, prop) ==
    Cardinality({k \in 1..Len(a) : prop_var_le(cumsum(a)[k], Sum(a), prop)}) + 1

InitEigen ==
    /\ PipeIdle /\ ReaderIdle /\ SmootherIdle /\ FpcaIdle /\ TasksIdle /\ ArgsIdle /\ LaterIdle
    /\ e_pc = "_eff_num"
    /\ imputed_values \in Spectra
    /\ eff_num = <<>>
    /\ prop_ldrs = <<>>

\* self.eff_num = self._eff_num()
EffNum ==
    /\ e_pc = "_eff_num"
    /\ eff_num' = eff_num_of(imputed_values)
    /\ e_pc' = "_print_prop_ldr"
    /\ UNCHANGED notEigen
    /\ UNCHANGED <<imputed_values, prop_ldrs>>

\* self.prop_ldrs_df = self._print_prop_ldr()
PrintPropLdr ==
    /\ e_pc = "_print_prop_ldr"
    /\ prop_ldrs' = [prop \in Props |-> n_ldrs_for(imputed_values, prop)]
    /\ e_pc' = "done"
    /\ UNCHANGED notEigen
    /\ UNCHANGED <<imputed_values, eff_num>>

NextEigen == EffNum \/ PrintPropLdr

SpecEigen == InitEigen /\ [][NextEigen]_vars

\* the fewest leading components whose eigenvalues sum to at least prop percent of the total
MinCovering(a, prop) ==
    CHOOSE k \in 1..Len(a) :
        /\ 100 * SumTo(a, k) >= prop * Sum(a)
        /\ \A j \in 1..(k - 1) : 100 * SumTo(a, j) < prop * Sum(a)

\* C13: for each proportion p of the table, the reported count is the smallest k
\* whose first k eigenvalues sum to at least p times the total, also when the first k
\* sum to p times the total exactly.
C13_CountIsMinimumCovering ==
    e_pc = "done" =>
        \A prop \in Props : prop_ldrs[prop] = MinCovering(imputed_values, prop)

\* C14: for a non-negative spectrum in descending order, the count reported for a
\* proportion is at most the count reported for any larger proportion.
C14_CountsNonDecreasing ==
    e_pc = "done" =>
        \A p1, p2 \in Props : p1 < p2 => prop_ldrs[p1] <= prop_ldrs[p2]

\* C14 witness: a spectrum whose count for 0.95 is above its count for 0.70
C14_Witness ==
    /\ e_pc = "done"
    /\ prop_ldrs[70] < prop_ldrs[95]

\* every eigenvalue equal to the first
Flat(a) == \A k \in 1..Len(a) : a[k] = a[1]
\* every eigenvalue but the first is zero
OneDominant(a) == a[1] > 0 /\ \A k \in 2..Len(a) : a[k] = 0

\* C15: the effective number is k for a flat spectrum of length k, and 1 for a
\* spectrum whose first eigenvalue is positive and whose others are zero.
C15_EffNumFlatAndDominant ==
    e_pc \in {"_print_prop_ldr", "done"} =>
        /\ eff_num[2] # 0
        /\ Flat(imputed_values) => eff_num[1] = Len(imputed_values) * eff_num[2]
        /\ OneDominant(imputed_values) => eff_num[1] = eff_num[2]

\* C15 witness: a flat spectrum of several eigenvalues
C15_Witness ==
    /\ e_pc = "done"
    /\ Len(imputed_values) >= 2
    /\ Flat(imputed_values)


(***************************************************************************)
(* gcv at the grain of its worker tasks: the N per-voxel futures of        *)
(* smoother, merged in the order as_completed yields them, and the         *)
(* per-batch futures of _calculate_diff_parallel, collected in submission  *)
(* order.  as_completed can yield the futures in any order whatever the    *)
(* number of threads, since the tasks may all finish before the first is   *)
(* merged.  A row of the matrix is known by the candidate it was computed  *)
(* for and by the columns of its retained weights.                         *)
(***************************************************************************)
\* the grid of the task specification
TaskGrid == 10
\* longest candidate list of the task specification
MaxTaskCand == 2

\* the numbers of batches image_reader yields
TaskBatchCounts == 1..2
\* the reaches of a kernel: the voxels at most this far from a voxel keep a weight
Reaches == 0..1
\* the residuals a batch can have: np.sum of those of the batches is a score
TaskDiffs == 0..(MaxScore \div 2)

\* _sm_weight(bw, idx) for candidate c: large_weight_idxs are the voxels within reach
\* of idx, sm_weight their weights under the bandwidth of c
RowTask(c, reach, idx) ==
    [cand |-> c,
     cols |-> {j \in 0..(t_N - 1) : j - idx <= reach /\ idx - j <= reach}]

\* the row stored at the position at which its future was yielded
MergeRow_arrival(m, idx, row) == ((t_N - Cardinality(t_pending)) :> row) @@ m

\* sparse_sm_weight[idx, large_weight_idxs] = sm_weight
MergeRow(m, idx, row) == (idx :> row) @@ m

\* a future whose task raised is passed over
Propagates_swallowed(outcome) == FALSE

\* future.result() raises what the task raised
Propagates(outcome) == outcome = "raise"

\* np.sum(sparse_sm_weight != 0)
Nnz(m) == Cardinality(UNION {{<<i, j>> : j \in m[i].cols} : i \in DOMAIN m})

InitTasks ==
    /\ PipeIdle /\ ReaderIdle /\ SmootherIdle /\ FpcaIdle /\ EigenIdle /\ ArgsIdle /\ LaterIdle
    /\ t_pc = "gcv"
    /\ t_N = TaskGrid
    /\ t_len \in 1..MaxTaskCand
    /\ t_B \in TaskBatchCounts
    /\ t_data = <<>>
    /\ t_cii = 0
    /\ t_pending = {}
    /\ t_dok = <<>>
    /\ t_k = 0
    /\ t_diff = <<>>
    /\ t_score = [i \in 0..(t_len - 1) |-> 0]
    /\ t_min_score = Inf
    /\ t_npz = NoNpz
    /\ t_scored = <<>>
    /\ t_ret = <<>>

\* gcv calls smoother for the next candidate: the empty dok matrix, one future per
\* voxel; the coordinates and the bandwidth decide the reach of the kernel
TaskSubmit ==
    /\ t_pc = "gcv"
    /\ t_cii < t_len
    /\ \E reach \in Reaches :
        t_data' = Append(t_data, [reach |-> reach, diff |-> <<>>])
    /\ t_pending' = 0..(t_N - 1)
    /\ t_dok' = <<>>
    /\ t_pc' = "as_completed"
    /\ UNCHANGED notTasks
    /\ UNCHANGED <<t_N, t_len, t_B, t_cii, t_k, t_diff, t_score, t_min_score, t_npz,
                   t_scored, t_ret>>

\* what a raise out of smoother or _calculate_diff_parallel leaves of gcv
TaskRaised ==
    /\ t_pc' = "raised"
    /\ t_pending' = {}
    /\ t_dok' = <<>>
    /\ t_k' = 0
    /\ t_diff' = <<>>
    /\ UNCHANGED <<t_N, t_len, t_B, t_data, t_cii, t_score, t_min_score, t_npz,
                   t_scored, t_ret>>

\* as_completed yields one of the pending futures; future.result() returns the row,
\* which is stored, or raises
TaskMerge ==
    /\ t_pc = "as_completed"
    /\ \E idx \in t_pending, outcome \in {"ok", "raise"} :
        IF Propagates(outcome)
        THEN TaskRaised
        ELSE /\ t_pending' = t_pending \ {idx}
             /\ t_dok' = IF outcome = "ok"
                          THEN MergeRow(t_dok, idx,
                                        RowTask(t_cii, t_data[t_cii + 1].reach, idx))
                          ELSE t_dok
             /\ UNCHANGED <<t_pc, t_N, t_len, t_B, t_data, t_cii, t_k, t_diff, t_score,
                            t_min_score, t_npz, t_scored, t_ret>>
    /\ UNCHANGED notTasks

\* every future was yielded: the density check of smoother, then in gcv either
\* score[cii] = np.Inf or the futures of _calculate_diff_parallel, one per batch;
\* the images and the matrix decide the residual of each batch
TaskSmootherReturn ==
    /\ t_pc = "as_completed"
    /\ t_pending = {}
    /\ IF TooDense(t_N, Nnz(t_dok))
       THEN /\ t_score' = [t_score EXCEPT ![t_cii] = RejectedScore]
            /\ t_cii' = t_cii + 1
            /\ t_dok' = <<>>
            /\ t_pc' = "gcv"
            /\ UNCHANGED t_data
       ELSE /\ \E d \in [1..t_B -> TaskDiffs] :
                t_data' = [t_data EXCEPT ![t_cii + 1].diff = d]
            /\ t_pc' = "diff"
            /\ UNCHANGED <<t_score, t_cii, t_dok>>
    /\ t_k' = 0
    /\ t_diff' = <<>>
    /\ UNCHANGED notTasks
    /\ UNCHANGED <<t_N, t_len, t_B, t_pending, t_min_score, t_npz, t_scored, t_ret>>

\* diff = [future.result() for future in futures]: the next future in submission
\* order returns its residual, or raises
TaskDiffResult ==
    /\ t_pc = "diff"
    /\ t_k < t_B
    /\ \E outcome \in {"ok", "raise"} :
        IF Propagates(outcome)
        THEN TaskRaised
        ELSE /\ t_k' = t_k + 1
             /\ t_diff' = IF outcome = "ok"
                           THEN Append(t_diff, t_data[t_cii + 1].diff[t_k + 1])
                           ELSE t_diff
             /\ UNCHANGED <<t_pc, t_N, t_len, t_B, t_data, t_cii, t_pending, t_dok,
                            t_score, t_min_score, t_npz, t_scored, t_ret>>
    /\ UNCHANGED notTasks

\* the rest of the iteration of gcv: the score from np.sum(diff), the zero test, the
\* comparison with min_score and the write of the scratch file
TaskScore ==
    /\ t_pc = "diff"
    /\ t_k = t_B
    /\ LET s == ZeroToNaN(Sum(t_diff))
       IN  /\ t_score' = [t_score EXCEPT ![t_cii] = s]
           /\ IF IsNewMin(s, t_min_score)
              THEN /\ t_min_score' = s
                   /\ t_npz' = [exists |-> TRUE, matrix |-> t_dok]
              ELSE UNCHANGED <<t_min_score, t_npz>>
    /\ t_scored' = Append(t_scored, [cand |-> t_cii, rows |-> DOMAIN t_dok,
                                      batches |-> Len(t_diff)])
    /\ t_cii' = t_cii + 1
    /\ t_dok' = <<>>
    /\ t_k' = 0
    /\ t_diff' = <<>>
    /\ t_pc' = "gcv"
    /\ UNCHANGED notTasks
    /\ UNCHANGED <<t_N, t_len, t_B, t_data, t_pending, t_ret>>

\* gcv after the loop: np.nanargmin, the test of the minimum, the reload
TaskSelect ==
    /\ t_pc = "gcv"
    /\ t_cii = t_len
    /\ IF AllNaN(t_score) \/ t_score[nanargmin(t_score)] = Inf \/ ~t_npz.exists
       THEN t_pc' = "raised" /\ t_ret' = t_ret
       ELSE /\ t_ret' = [which_min |-> nanargmin(t_score),
                         min_mse |-> t_score[nanargmin(t_score)],
                         sparse_sm_weight |-> t_npz.matrix]
            /\ t_pc' = "returned"
    /\ UNCHANGED notTasks
    /\ UNCHANGED <<t_N, t_len, t_B, t_data, t_cii, t_pending, t_dok, t_k, t_diff,
                   t_score, t_min_score, t_npz, t_scored>>

NextTasks ==
    \/ TaskSubmit
    \/ TaskMerge
    \/ TaskSmootherReturn
    \/ TaskDiffResult
    \/ TaskScore
    \/ TaskSelect

SpecTasks == InitTasks /\ [][NextTasks]_vars

\* the matrix smoother builds for candidate c, whatever the order of its futures
ExpectedMatrix(c) == [idx \in 0..(t_N - 1) |-> RowTask(c, t_data[c + 1].reach, idx)]

\* the score gcv stores for candidate c
ExpectedScore(c) ==
    IF TooDense(t_N, Nnz(ExpectedMatrix(c))) THEN Inf
    ELSE ZeroToNaN(Sum(t_data[c + 1].diff))

ExpectedScores == [c \in 0..(t_len - 1) |-> ExpectedScore(c)]

\* C18: the winning candidate, its score and the matrix loaded from scratch that gcv
\* returns are decided by the candidate list and the data alone: they are the same
\* for every order in which the futures of the tasks complete, hence for any two runs
\* on the same candidates and data.  While the futures are merged, the matrix holds
\* at every merged voxel the row of that voxel, whatever the order so far.
C18_GcvResultDecidedByData ==
    /\ t_pc = "as_completed" =>
          t_dok = [idx \in (0..(t_N - 1)) \ t_pending |-> ExpectedMatrix(t_cii)[idx]]
    /\ t_pc = "returned" =>
          /\ t_ret.which_min = nanargmin(ExpectedScores)
          /\ t_ret.min_mse = ExpectedScores[t_ret.which_min]
          /\ t_ret.sparse_sm_weight = ExpectedMatrix(t_ret.which_min)
          /\ t_npz = [exists |-> TRUE, matrix |-> ExpectedMatrix(t_ret.which_min)]

\* C18 witness: gcv returned the second candidate, a later one having been scored too
C18_Witness ==
    /\ t_pc = "returned"
    /\ t_ret.which_min = 1
    /\ Len(t_scored) >= 2

\* C17: when a per-voxel task or a per-batch task raises, smoother or
\* _calculate_diff_parallel raises and gcv with it; every matrix that is scored,
\* written to scratch or returned holds the row of every voxel, and every score is
\* the sum over every batch of subjects.
C17_TaskFailureFailsTheCall ==
    /\ t_pc = "as_completed" => DOMAIN t_dok = (0..(t_N - 1)) \ t_pending
    /\ t_pc = "diff" => DOMAIN t_dok = 0..(t_N - 1) /\ Len(t_diff) = t_k
    /\ \A k \in 1..Len(t_scored) :
          /\ t_scored[k].rows = 0..(t_N - 1)
          /\ t_scored[k].batches = t_B
    /\ t_npz.exists => DOMAIN t_npz.matrix = 0..(t_N - 1)
    /\ t_pc = "returned" => DOMAIN t_ret.sparse_sm_weight = 0..(t_N - 1)

\* C17 witness: a task raised after an earlier candidate was scored and written
C17_Witness ==
    /\ t_pc = "raised"
    /\ t_cii < t_len
    /\ t_cii >= 1
    /\ t_npz.exists

(***************************************************************************)
(* check_accepted_args of src/heig.py: the options a module does not       *)
(* accept are reset to None and named in a warning.  Of the options of     *)
(* the parser, six are modelled, with every module.  A value is None,      *)
(* Some(0) for a value Python holds false (0, 0.0, an empty string), or    *)
(* Some(1) for any other value.                                            *)
(***************************************************************************)
\* the module flags of the parser, the keys of accepted_args
Modules ==
    {"heri_gc", "read_image", "fpca", "make_ldr", "ld_matrix", "sumstats", "voxel_gwas",
        "gwas", "relatedness", "make_mt", "rv_null", "make_rv_sumstats", "rv_annot",
        "rv_coding", "rv_noncoding", "rv"}

\* the options modelled, in the order the parser defines them (the order of vars(args))
OptionOrder == <<"image", "n_ldrs", "exclude", "maf_max", "voxels", "threads">>
Options == {OptionOrder[k] : k \in 1..Len(OptionOrder)}

\* "Supported modules: ..." in the help of each option
HelpSupports ==
    ("image" :> {"fpca", "make_ldr"})
    @@ ("n_ldrs" :> {"make_ldr", "fpca", "heri_gc", "voxel_gwas", "gwas", "relatedness",
           "rv_null", "make_rv_sumstats", "rv_coding", "rv_noncoding", "rv"})
    @@ ("exclude" :> {"heri_gc", "ld_matrix", "voxel_gwas", "gwas", "make_mt",
           "relatedness"})
    @@ ("maf_max" :> {"sumstats", "gwas", "make_mt", "relatedness", "make_rv_sumstats",
           "rv_coding", "rv_noncoding", "rv"})
    @@ ("voxels" :> {"voxel_gwas", "rv_coding", "rv_noncoding", "rv"})
    @@ ("threads" :> {"read_image", "sumstats", "fpca", "voxel_gwas", "heri_gc",
           "make_ldr", "relatedness"})

\* accepted_args of check_accepted_args, limited to the options modelled; the entry
\* of voxel_gwas holds "voxel", which is no option of the parser (--voxels and
\* --voxel are both stored as voxels)
accepted_args ==
    ("heri_gc" :> {"n_ldrs", "exclude", "threads"})
    @@ ("read_image" :> {"image", "threads"})
    @@ ("fpca" :> {"image", "n_ldrs", "threads"})
    @@ ("make_ldr" :> {"image", "n_ldrs", "threads"})
    @@ ("ld_matrix" :> {})
    @@ ("sumstats" :> {"threads"})
    @@ ("voxel_gwas" :> {"n_ldrs", "exclude", "threads", "voxel"})
    @@ ("gwas" :> {"n_ldrs", "exclude", "maf_max"})
    @@ ("relatedness" :> {"n_ldrs", "exclude", "maf_max", "threads"})
    @@ ("make_mt" :> {"exclude", "maf_max", "threads"})
    @@ ("rv_null" :> {"n_ldrs", "threads"})
    @@ ("make_rv_sumstats" :> {"n_ldrs", "maf_max"})
    @@ ("rv_annot" :> {})
    @@ ("rv_coding" :> {"n_ldrs", "maf_max", "voxels"})
    @@ ("rv_noncoding" :> {"n_ldrs", "maf_max", "voxels"})
    @@ ("rv" :> {"n_ldrs", "maf_max", "voxels"})

\* f"--{arg.replace('_', '-')}"
OptionFlag(arg) ==
    CASE arg = "image" -> "--image"
      [] arg = "n_ldrs" -> "--n-ldrs"
      [] arg = "exclude" -> "--exclude"
      [] arg = "maf_max" -> "--maf-max"
      [] arg = "voxels" -> "--voxels"
      [] arg = "threads" -> "--threads"

\* v is None or not v
IsFalsy(v) == v = None \/ Val(v) = 0

\* the test of the loop: the option is set and the module does not accept it
Ignored(module, k, v) == ~IsFalsy(v) /\ k \notin accepted_args[module]

\* ignored_args after the loop over vars(args).items()
RECURSIVE ignored_args(_, _, _)
ignored_args(module, a, k) ==
    IF k > Len(OptionOrder) THEN <<>>
    ELSE (IF Ignored(module, OptionOrder[k], a[OptionOrder[k]])
          THEN <<OptionOrder[k]>> ELSE <<>>) \o ignored_args(module, a, k + 1)

InitArgs ==
    /\ PipeIdle /\ ReaderIdle /\ SmootherIdle /\ FpcaIdle /\ EigenIdle /\ TasksIdle /\ LaterIdle
    /\ a_pc = "parsed"
    /\ a_module \in Modules
    /\ a_given \in [Options -> {None, Some(0), Some(1)}]
    /\ a_args = a_given
    /\ a_log = <<>>

\* check_accepted_args(module, args, log)
CheckAcceptedArgs ==
    /\ a_pc = "parsed"
    /\ LET ign == ignored_args(a_module, a_args, 1)
       IN  /\ a_args' = [k \in Options |->
                            IF Ignored(a_module, k, a_args[k]) THEN None ELSE a_args[k]]
           /\ a_log' = IF Len(ign) > 0
                        THEN <<[ignored |-> [i \in 1..Len(ign) |-> OptionFlag(ign[i])],
                                by |-> a_module]>>
                        ELSE <<>>
    /\ a_pc' = "checked"
    /\ UNCHANGED notArgs
    /\ UNCHANGED <<a_module, a_given>>

NextArgs == CheckAcceptedArgs

SpecArgs == InitArgs /\ [][NextArgs]_vars

\* C20: after check_accepted_args, every option whose help lists the selected module
\* keeps the value supplied, every other option supplied is None and is named in the
\* one warning logged; --voxels keeps its value under --voxel-gwas.
C20_HelpListedKeptOthersIgnored ==
    a_pc = "checked" =>
        /\ \A o \in Options :
              /\ a_module \in HelpSupports[o] => a_args[o] = a_given[o]
              /\ (a_module \notin HelpSupports[o] /\ a_given[o] # None) =>
                    (a_args[o] = None /\ Len(a_log) = 1
                     /\ \E j \in 1..Len(a_log[1].ignored) :
                           a_log[1].ignored[j] = OptionFlag(o))
        /\ Len(a_log) <= 1
        /\ a_module = "voxel_gwas" => a_args["voxels"] = a_given["voxels"]

(***************************************************************************)
(* LocalLinear at the grain of its threads.  The caller of gcv and of      *)
(* do_kernel_smoothing is one thread; each ThreadPoolExecutor runs its     *)
(* tasks on up to `threads` worker threads, which take the queued tasks    *)
(* in submission order.  A worker task returns a value; what the caller    *)
(* does with it happens in the caller's thread.  A store into the dok      *)
(* matrix takes time: it begins and it ends.  fpca.py creates no lock.     *)
(***************************************************************************)
\* the grid of the thread specification
PoolGrid == 3
\* max_workers of the executors
PoolThreads == 2

\* the lengths of the candidate list of the thread specification
PoolCandCounts == 1..2
\* the numbers of batches image_reader yields
PoolBatchCounts == 1..2
\* the reaches of a kernel: -1 when no weight of a row exceeds 1 / N in magnitude,
\* 0 when only the weight of a voxel on itself does
PoolReaches == {-1, 0}
\* the residuals a batch can have
PoolDiffs == 0..1

\* the worker threads of an executor
Workers == 1..PoolThreads
\* the thread that calls gcv and do_kernel_smoothing, thread 0
Caller == 0
\* no thread: a task no worker has taken
NoThread == -1

\* _sm_weight(bw, idx) for candidate c: what the task of voxel idx returns
PoolRowTask(c, reach, idx) ==
    [cand |-> c, voxel |-> idx,
     cols |-> {j \in 0..(p_N - 1) : j - idx <= reach /\ idx - j <= reach}]

\* np.sum(sm_image_, axis=0) of batch b of do_kernel_smoothing, a value of its own
PoolBatchSum(b) == b + 1

\* each worker storing the row it computed
Storer_worker(w) == w

\* the thread that runs the body of the as_completed loop for a future run by worker w
Storer(w) == Caller

\* the accumulator replaced by the sum of the batch
AccAdd_overwrite(acc, x) == x

\* subject_wise_mean += np.sum(sm_image_, axis=0)
AccAdd(acc, x) == acc + x

\* a task submitted to the executor and not taken by a worker yet
QueuedFuture == [state |-> "queued", thread |-> NoThread, result |-> None]

\* worker w is running a task
Busy(w) == \E idx \in DOMAIN p_fut : p_fut[idx].state = "running" /\ p_fut[idx].thread = w

\* the futures no worker has taken yet
Queued == {idx \in DOMAIN p_fut : p_fut[idx].state = "queued"}

\* the futures that are not done
Live == {idx \in DOMAIN p_fut : p_fut[idx].state # "done"}

\* an update of `target` made now by the calling thread; no lock exists to hold
Update(target) ==
    [target |-> target, thread |-> Caller, lock |-> FALSE, live |-> Cardinality(Live)]

InitPool ==
    /\ PipeIdle /\ ReaderIdle /\ SmootherIdle /\ FpcaIdle /\ EigenIdle /\ TasksIdle /\ ArgsIdle
    /\ VgwasIdle /\ WriteIdle /\ VoxelsIdle /\ BedIdle
    /\ p_pc = "gcv"
    /\ p_N = PoolGrid
    /\ p_len \in PoolCandCounts
    /\ p_B \in PoolBatchCounts
    /\ p_cii = 0
    /\ p_reach = 0
    /\ p_fut = <<>>
    /\ p_yielded = {}
    /\ p_dok = <<>>
    /\ p_writers = {}
    /\ p_k = 0
    /\ p_diff = <<>>
    /\ p_score = [i \in 0..(p_len - 1) |-> 0]
    /\ p_min_score = Inf
    /\ p_b = 0
    /\ p_mean = 0
    /\ p_divided = 0
    /\ p_updates = <<>>

\* gcv calls smoother for the next candidate: the empty dok matrix and one future per
\* voxel
PoolSubmit ==
    /\ p_pc = "gcv"
    /\ p_cii < p_len
    /\ \E reach \in PoolReaches : p_reach' = reach
    /\ p_fut' = [idx \in 0..(p_N - 1) |-> QueuedFuture]
    /\ p_yielded' = {}
    /\ p_dok' = <<>>
    /\ p_pc' = "as_completed"
    /\ UNCHANGED notPool
    /\ UNCHANGED <<p_N, p_len, p_B, p_cii, p_writers, p_k, p_diff, p_score, p_min_score,
                   p_b, p_mean, p_divided, p_updates>>

\* an idle worker takes the oldest queued task
PoolWorkerStart ==
    /\ Queued # {}
    /\ \E w \in Workers :
        /\ ~Busy(w)
        /\ LET idx == CHOOSE i \in Queued : \A j \in Queued : i <= j
           IN  p_fut' = [p_fut EXCEPT ![idx] =
                            [state |-> "running", thread |-> w, result |-> None]]
    /\ UNCHANGED notPool
    /\ UNCHANGED <<p_pc, p_N, p_len, p_B, p_cii, p_reach, p_yielded, p_dok, p_writers, p_k,
                   p_diff, p_score, p_min_score, p_b, p_mean, p_divided, p_updates>>

\* a worker finishes its task: _sm_weight returns the row of its voxel,
\* _calculate_diff the residual of its batch
PoolWorkerFinish ==
    /\ \E idx \in DOMAIN p_fut :
        /\ p_fut[idx].state = "running"
        /\ \E d \in PoolDiffs :
            LET res == IF p_pc = "diff" THEN Some(d)
                       ELSE Some(PoolRowTask(p_cii, p_reach, idx))
            IN  p_fut' = [p_fut EXCEPT ![idx].state = "done", ![idx].result = res]
    /\ UNCHANGED notPool
    /\ UNCHANGED <<p_pc, p_N, p_len, p_B, p_cii, p_reach, p_yielded, p_dok, p_writers, p_k,
                   p_diff, p_score, p_min_score, p_b, p_mean, p_divided, p_updates>>

\* as_completed yields a future that is done; future.result() returns the row and
\* the store sparse_sm_weight[idx, large_weight_idxs] = sm_weight begins
PoolStoreBegin ==
    /\ p_pc \in {"as_completed", "storing"}
    /\ \E idx \in DOMAIN p_fut :
        LET th == Storer(p_fut[idx].thread)
        IN  /\ p_fut[idx].state = "done"
            /\ idx \notin p_yielded
            /\ \A wr \in p_writers : wr[1] # th /\ wr[2] # idx
            /\ th = Caller => p_pc = "as_completed"
            /\ p_writers' = p_writers \cup {<<th, idx>>}
            /\ p_pc' = IF th = Caller THEN "storing" ELSE p_pc
    /\ UNCHANGED notPool
    /\ UNCHANGED <<p_N, p_len, p_B, p_cii, p_reach, p_fut, p_yielded, p_dok, p_k, p_diff,
                   p_score, p_min_score, p_b, p_mean, p_divided, p_updates>>

\* the store ends: the row is in the matrix
PoolStoreEnd ==
    /\ \E wr \in p_writers :
        /\ p_dok' = MergeRow(p_dok, wr[2], Val(p_fut[wr[2]].result))
        /\ p_yielded' = p_yielded \cup {wr[2]}
        /\ p_writers' = p_writers \ {wr}
        /\ p_pc' = IF wr[1] = Caller THEN "as_completed" ELSE p_pc
    /\ UNCHANGED notPool
    /\ UNCHANGED <<p_N, p_len, p_B, p_cii, p_reach, p_fut, p_k, p_diff, p_score,
                   p_min_score, p_b, p_mean, p_divided, p_updates>>

\* every future was yielded and the executor is shut down: the density check of
\* smoother, then in gcv either score[cii] = np.Inf or the futures of
\* _calculate_diff_parallel, one per batch
PoolSmootherReturn ==
    /\ p_pc = "as_completed"
    /\ p_yielded = 0..(p_N - 1)
    /\ IF TooDense(p_N, Nnz(p_dok))
       THEN /\ p_score' = [p_score EXCEPT ![p_cii] = RejectedScore]
            /\ p_updates' = Append(p_updates, Update("score"))
            /\ p_cii' = p_cii + 1
            /\ p_fut' = <<>>
            /\ p_dok' = <<>>
            /\ p_pc' = "gcv"
       ELSE /\ p_fut' = [b \in 0..(p_B - 1) |-> QueuedFuture]
            /\ p_pc' = "diff"
            /\ UNCHANGED <<p_score, p_updates, p_cii, p_dok>>
    /\ p_yielded' = {}
    /\ p_k' = 0
    /\ p_diff' = <<>>
    /\ UNCHANGED notPool
    /\ UNCHANGED <<p_N, p_len, p_B, p_reach, p_writers, p_min_score, p_b, p_mean,
                   p_divided>>

\* diff = [future.result() for future in futures]: the caller waits for the next
\* future in submission order and takes its residual
PoolDiffResult ==
    /\ p_pc = "diff"
    /\ p_k < p_B
    /\ p_fut[p_k].state = "done"
    /\ p_diff' = Append(p_diff, Val(p_fut[p_k].result))
    /\ p_k' = p_k + 1
    /\ UNCHANGED notPool
    /\ UNCHANGED <<p_pc, p_N, p_len, p_B, p_cii, p_reach, p_fut, p_yielded, p_dok,
                   p_writers, p_score, p_min_score, p_b, p_mean, p_divided, p_updates>>

\* the rest of the iteration of gcv: the score, the zero test, the comparison with
\* min_score
PoolScore ==
    /\ p_pc = "diff"
    /\ p_k = p_B
    /\ LET s == ZeroToNaN(Sum(p_diff))
       IN  /\ p_score' = [p_score EXCEPT ![p_cii] = s]
           /\ IF IsNewMin(s, p_min_score)
              THEN /\ p_min_score' = s
                   /\ p_updates' = p_updates \o <<Update("score"), Update("min_score")>>
              ELSE /\ p_min_score' = p_min_score
                   /\ p_updates' = Append(p_updates, Update("score"))
    /\ p_cii' = p_cii + 1
    /\ p_fut' = <<>>
    /\ p_dok' = <<>>
    /\ p_k' = 0
    /\ p_diff' = <<>>
    /\ p_pc' = "gcv"
    /\ UNCHANGED notPool
    /\ UNCHANGED <<p_N, p_len, p_B, p_reach, p_yielded, p_writers, p_b, p_mean, p_divided>>

\* gcv after the loop, then do_kernel_smoothing up to its loop over the batches
PoolSelect ==
    /\ p_pc = "gcv"
    /\ p_cii = p_len
    /\ p_pc' = IF AllNaN(p_score) \/ p_score[nanargmin(p_score)] = Inf
               THEN "raised" ELSE "batches"
    /\ p_b' = 0
    /\ p_mean' = 0
    /\ UNCHANGED notPool
    /\ UNCHANGED <<p_N, p_len, p_B, p_cii, p_reach, p_fut, p_yielded, p_dok, p_writers, p_k,
                   p_diff, p_score, p_min_score, p_divided, p_updates>>

\* one iteration of the loop of do_kernel_smoothing: the batch is smoothed, written
\* and added to subject_wise_mean
PoolBatch ==
    /\ p_pc = "batches"
    /\ p_b < p_B
    /\ p_mean' = AccAdd(p_mean, PoolBatchSum(p_b))
    /\ p_updates' = Append(p_updates, Update("subject_wise_mean"))
    /\ p_b' = p_b + 1
    /\ UNCHANGED notPool
    /\ UNCHANGED <<p_pc, p_N, p_len, p_B, p_cii, p_reach, p_fut, p_yielded, p_dok,
                   p_writers, p_k, p_diff, p_score, p_min_score, p_divided>>

\* after the loop: subject_wise_mean /= n_subjects
PoolMean ==
    /\ p_pc = "batches"
    /\ p_b = p_B
    /\ p_divided' = p_divided + 1
    /\ p_pc' = "returned"
    /\ UNCHANGED notPool
    /\ UNCHANGED <<p_N, p_len, p_B, p_cii, p_reach, p_fut, p_yielded, p_dok, p_writers, p_k,
                   p_diff, p_score, p_min_score, p_b, p_mean, p_updates>>

NextPool ==
    \/ PoolSubmit
    \/ PoolWorkerStart
    \/ PoolWorkerFinish
    \/ PoolStoreBegin
    \/ PoolStoreEnd
    \/ PoolSmootherReturn
    \/ PoolDiffResult
    \/ PoolScore
    \/ PoolSelect
    \/ PoolBatch
    \/ PoolMean

SpecPool == InitPool /\ [][NextPool]_vars

\* the matrix smoother builds for the current candidate over the voxels S
PoolExpected(S) == [idx \in S |-> PoolRowTask(p_cii, p_reach, idx)]

\* C22: for every interleaving of the per-voxel tasks and every order in which they
\* complete, the merged matrix holds at row i exactly what the task of voxel i
\* returned: no result is lost or stored in another row; at most one thread is
\* storing into the matrix at any time, and that thread is the caller's.
C22_MergeSameForEveryInterleaving ==
    /\ Cardinality(p_writers) <= 1
    /\ \A wr \in p_writers : wr[1] = Caller
    /\ p_pc \in {"as_completed", "storing"} => p_dok = PoolExpected(p_yielded)
    /\ p_pc = "diff" => p_dok = PoolExpected(0..(p_N - 1))

\* C22 witness: the rows of the last two voxels are stored while the task of the
\* first voxel is still running
C22_Witness ==
    /\ p_pc = "as_completed"
    /\ p_yielded = {1, 2}
    /\ p_fut[0].state = "running"
    /\ DOMAIN p_dok = {1, 2}

\* the positions of p_updates at which `target` was updated
UpdatesOf(target) == {k \in 1..Len(p_updates) : p_updates[k].target = target}

\* C23, as claimed: the running score and minimum of gcv and the running
\* subject-wise mean are mutated by worker tasks, each holding a lock.
C23_UpdatedByWorkersUnderLock ==
    \A k \in 1..Len(p_updates) :
        p_updates[k].thread \in Workers /\ p_updates[k].lock

\* C23, amended: the running score and minimum of gcv and the running subject-wise
\* mean are mutated by the calling thread alone, without a lock, at moments when
\* no worker task is pending or running; the worker tasks only return values.  So
\* no two updates overlap and none is lost: every candidate evaluated has updated
\* the score once, and the accumulator is the sum over every batch handled.
C23_UpdatedByCallerAlone ==
    /\ \A k \in 1..Len(p_updates) :
          /\ p_updates[k].thread = Caller
          /\ ~p_updates[k].lock
          /\ p_updates[k].live = 0
    /\ p_pc = "gcv" => Cardinality(UpdatesOf("score")) = p_cii
    /\ Cardinality(UpdatesOf("min_score")) <= Cardinality(UpdatesOf("score"))
    /\ Cardinality(UpdatesOf("subject_wise_mean")) = p_b
    /\ p_mean = SumTo([b \in 1..p_B |-> PoolBatchSum(b - 1)], p_b)
    /\ p_pc = "returned" => (p_b = p_B /\ p_divided = 1)
    /\ p_pc # "returned" => p_divided = 0

\* C23 witness: do_kernel_smoothing returned after a sweep of two candidates, the
\* second of which lowered the minimum, and two batches
C23_Witness ==
    /\ p_pc = "returned"
    /\ p_len = 2
    /\ p_B = 2
    /\ Cardinality(UpdatesOf("min_score")) = 2
    /\ Cardinality(UpdatesOf("subject_wise_mean")) = 2

(***************************************************************************)
(* VGWAS._compute_ztz_inv and VGWAS.recover_beta of src/heig/voxelgwas.py: *)
(* one task per batch of data_reader, submitted while the reader is        *)
(* iterated; a task computes the contribution of its batch and adds it to  *)
(* the shared array inside `with lock`.  The in-place addition reads the   *)
(* array and then writes it.                                               *)
(***************************************************************************)
\* most batches data_reader yields
MaxVgwasBatches == 3

\* the two functions
VgwasFunctions == {"_compute_ztz_inv", "recover_beta"}

\* ztz_inv_batch / voxel_beta_batch of batch b, a value of its own
Contribution(b) == b + 1

\* an addition made without waiting for the lock
CanAcquire_always(lock) == TRUE

\* with lock: the task enters when no task holds the lock
CanAcquire(lock) == lock = NoThread

\* worker w is running a task of the executor of VGWAS
VgwasBusy(w) ==
    \E b \in DOMAIN v_fut : v_fut[b].state \in {"running", "adding"} /\ v_fut[b].thread = w

\* the submitted futures no worker has taken yet
VgwasQueued == {b \in DOMAIN v_fut : v_fut[b].state = "queued"}

\* the futures whose task is done
VgwasDone == {b \in DOMAIN v_fut : v_fut[b].state = "done"}

InitVgwas ==
    /\ PipeIdle /\ ReaderIdle /\ SmootherIdle /\ FpcaIdle /\ EigenIdle /\ TasksIdle /\ ArgsIdle
    /\ PoolIdle /\ WriteIdle /\ VoxelsIdle /\ BedIdle
    /\ v_pc = "submit"
    /\ v_fn \in VgwasFunctions
    /\ v_B \in 1..MaxVgwasBatches
    /\ v_fut = <<>>
    /\ v_lock = NoThread
    /\ v_acc = 0
    /\ v_yielded = {}
    /\ v_ret = None

\* one iteration of the loop over data_reader: the task of the next batch is
\* submitted; after the last batch the caller enters the as_completed loop
VgwasSubmit ==
    /\ v_pc = "submit"
    /\ LET b == Cardinality(DOMAIN v_fut)
       IN  /\ v_fut' = v_fut @@ (b :> [state |-> "queued", thread |-> NoThread, read |-> 0])
           /\ v_pc' = IF b + 1 = v_B THEN "as_completed" ELSE "submit"
    /\ UNCHANGED notVgwas
    /\ UNCHANGED <<v_fn, v_B, v_lock, v_acc, v_yielded, v_ret>>

\* an idle worker takes the oldest queued task and computes its contribution
VgwasTaskStart ==
    /\ VgwasQueued # {}
    /\ \E w \in Workers :
        /\ ~VgwasBusy(w)
        /\ LET b == CHOOSE i \in VgwasQueued : \A j \in VgwasQueued : i <= j
           IN  v_fut' = [v_fut EXCEPT ![b].state = "running", ![b].thread = w]
    /\ UNCHANGED notVgwas
    /\ UNCHANGED <<v_pc, v_fn, v_B, v_lock, v_acc, v_yielded, v_ret>>

\* with lock: the task acquires the lock and the addition reads the array
VgwasTaskEnter ==
    /\ \E b \in DOMAIN v_fut :
        /\ v_fut[b].state = "running"
        /\ CanAcquire(v_lock)
        /\ v_lock' = b
        /\ v_fut' = [v_fut EXCEPT ![b].state = "adding", ![b].read = v_acc]
    /\ UNCHANGED notVgwas
    /\ UNCHANGED <<v_pc, v_fn, v_B, v_acc, v_yielded, v_ret>>

\* the addition writes the array, the lock is released and the task returns
VgwasTaskLeave ==
    /\ \E b \in DOMAIN v_fut :
        /\ v_fut[b].state = "adding"
        /\ v_acc' = v_fut[b].read + Contribution(b)
        /\ v_lock' = NoThread
        /\ v_fut' = [v_fut EXCEPT ![b].state = "done"]
    /\ UNCHANGED notVgwas
    /\ UNCHANGED <<v_pc, v_fn, v_B, v_yielded, v_ret>>

\* as_completed yields a future that is done; future.result() returns None
VgwasYield ==
    /\ v_pc = "as_completed"
    /\ \E b \in VgwasDone \ v_yielded : v_yielded' = v_yielded \cup {b}
    /\ UNCHANGED notVgwas
    /\ UNCHANGED <<v_pc, v_fn, v_B, v_fut, v_lock, v_acc, v_ret>>

\* every future was yielded and the executor is shut down: _compute_ztz_inv divides
\* by n_ldrs and returns the array, recover_beta returns it as it is
VgwasReturn ==
    /\ v_pc = "as_completed"
    /\ v_yielded = DOMAIN v_fut
    /\ v_ret' = Some([acc |-> v_acc, normalised |-> v_fn = "_compute_ztz_inv"])
    /\ v_pc' = "returned"
    /\ UNCHANGED notVgwas
    /\ UNCHANGED <<v_fn, v_B, v_fut, v_lock, v_acc, v_yielded>>

NextVgwas ==
    \/ VgwasSubmit
    \/ VgwasTaskStart
    \/ VgwasTaskEnter
    \/ VgwasTaskLeave
    \/ VgwasYield
    \/ VgwasReturn

SpecVgwas == InitVgwas /\ [][NextVgwas]_vars

\* the sum of the contributions of the batches S
ContributionsOf(S) == Sum([k \in 1..v_B |-> IF (k - 1) \in S THEN Contribution(k - 1) ELSE 0])

\* C24: in _compute_ztz_inv and recover_beta a task adds to the shared array only
\* while it holds the lock, at most one task at a time; at every moment the array is
\* the sum of the contributions of the tasks that are done, so that for every
\* interleaving the array returned is the sum of all batch contributions, none lost
\* and none added twice; and the array is normalised and returned only after every
\* submitted task has completed.
C24_LockedAccumulationSumsAll ==
    /\ \A b \in DOMAIN v_fut : v_fut[b].state = "adding" <=> v_lock = b
    /\ Cardinality({b \in DOMAIN v_fut : v_fut[b].state = "adding"}) <= 1
    /\ v_lock = NoThread => v_acc = ContributionsOf(VgwasDone)
    /\ v_pc = "returned" =>
          /\ VgwasDone = 0..(v_B - 1)
          /\ v_ret = Some([acc |-> ContributionsOf(0..(v_B - 1)),
                           normalised |-> v_fn = "_compute_ztz_inv"])
    /\ v_pc # "returned" => v_ret = None

\* C24 witness: before the last batch is submitted, the task of the first batch is
\* adding under the lock after the task of the second batch has added its contribution
C24_Witness ==
    /\ v_pc = "submit"
    /\ v_B = 3
    /\ DOMAIN v_fut = {0, 1}
    /\ v_fut[1].state = "done"
    /\ v_fut[0].state = "adding"
    /\ v_acc = Contribution(1)

(***************************************************************************)
(* do_kernel_smoothing: the loop that smooths the batches of image_reader, *)
(* writes them to the dataset sm_images and accumulates subject_wise_mean. *)
(* A row of the dataset is known by the subject whose smoothed image it    *)
(* holds; the sum of a smoothed image is a value of its subject.           *)
(***************************************************************************)
\* np.sum of the smoothed image of subject id
SmoothedSum(id) == id + 1

\* np.sum(sm_image_, axis=0) for the chunk of subjects
ChunkSum(chunk) == Sum([k \in 1..Len(chunk) |-> SmoothedSum(chunk[k])])

\* start_idx left at its first value
NextStart_kept(start, end) == start

\* start_idx = end_idx
NextStart(start, end) == end

\* a row of the dataset nothing was written to
Unwritten == -1

InitWrite ==
    /\ PipeIdle /\ ReaderIdle /\ SmootherIdle /\ FpcaIdle /\ EigenIdle /\ TasksIdle /\ ArgsIdle
    /\ PoolIdle /\ VgwasIdle /\ VoxelsIdle /\ BedIdle
    /\ w_pc = "start"
    /\ w_ids \in IdIdxChoices
    /\ w_N \in ReaderGrids
    /\ w_batch_size = 0
    /\ w_i = 0
    /\ start_idx = 0
    /\ end_idx = 0
    /\ sm_images = <<>>
    /\ subject_wise_mean = <<0, 1>>
    /\ w_ranges = <<>>

\* subject_wise_mean = np.zeros, the dataset is created, start_idx, end_idx = 0, 0,
\* and the for statement starts image_reader, which raises ValueError on
\* range(0, n, 0)
SmWriteStart ==
    /\ w_pc = "start"
    /\ sm_images' = [r \in 1..Len(w_ids) |-> Unwritten]
    /\ w_batch_size' = ReaderBatchSize(Len(w_ids), w_N)
    /\ w_pc' = IF w_batch_size' = 0 THEN "raised" ELSE "loop"
    /\ UNCHANGED notWrite
    /\ UNCHANGED <<w_ids, w_N, w_i, start_idx, end_idx, subject_wise_mean, w_ranges>>

\* one iteration: the next chunk is smoothed, written to sm_images[start_idx:end_idx]
\* and added to subject_wise_mean
SmWriteBatch ==
    /\ w_pc = "loop"
    /\ w_i < Len(w_ids)
    /\ LET chunk == Slice(w_ids, w_i, w_batch_size)
           s == NextStart(start_idx, end_idx)
           e == end_idx + Len(chunk)
       IN  /\ start_idx' = s
           /\ end_idx' = e
           /\ sm_images' = [r \in 1..Len(sm_images) |->
                               IF s < r /\ r <= e /\ r - s <= Len(chunk)
                               THEN chunk[r - s] ELSE sm_images[r]]
           /\ subject_wise_mean' = <<subject_wise_mean[1] + ChunkSum(chunk),
                                     subject_wise_mean[2]>>
           /\ w_ranges' = Append(w_ranges, <<s, e>>)
    /\ w_i' = w_i + w_batch_size
    /\ UNCHANGED notWrite
    /\ UNCHANGED <<w_pc, w_ids, w_N, w_batch_size>>

\* the reader is exhausted: subject_wise_mean /= n_subjects
SmWriteMean ==
    /\ w_pc = "loop"
    /\ w_i >= Len(w_ids)
    /\ subject_wise_mean' = <<subject_wise_mean[1], subject_wise_mean[2] * Len(w_ids)>>
    /\ w_pc' = "done"
    /\ UNCHANGED notWrite
    /\ UNCHANGED <<w_ids, w_N, w_batch_size, w_i, start_idx, end_idx, sm_images, w_ranges>>

NextWrite == SmWriteStart \/ SmWriteBatch \/ SmWriteMean

SpecWrite == InitWrite /\ [][NextWrite]_vars

\* C25: the batches are written to consecutive, non-empty, non-overlapping row ranges
\* [start_idx, end_idx) starting at row 0; the rows written so far hold the subjects
\* of id_idxs in input order and the rows beyond end_idx are untouched; when the loop
\* has ended the ranges cover exactly the rows [0, n_subjects), and subject_wise_mean
\* is the sum over all written rows divided by n_subjects, the division being done
\* once, after the last batch.
C25_ContiguousRangesAndMean ==
    /\ \A k \in 1..Len(w_ranges) :
          /\ w_ranges[k][1] < w_ranges[k][2]
          /\ w_ranges[k][1] = IF k = 1 THEN 0 ELSE w_ranges[k - 1][2]
    /\ w_ranges # <<>> =>
          (w_ranges[Len(w_ranges)] = <<start_idx, end_idx>>)
    /\ w_ranges = <<>> => end_idx = 0
    /\ \A r \in 1..Len(sm_images) :
          sm_images[r] = IF r <= end_idx THEN w_ids[r] ELSE Unwritten
    /\ w_pc # "done" =>
          subject_wise_mean = <<ChunkSum(SubSeq(w_ids, 1, end_idx)), 1>>
    /\ w_pc = "done" =>
          /\ end_idx = Len(w_ids)
          /\ subject_wise_mean = <<ChunkSum(w_ids), Len(w_ids)>>

\* C25 witness: five subjects were written in three batches, the last one shorter
C25_Witness ==
    /\ w_pc = "done"
    /\ w_ranges = <<<<0, 2>>, <<2, 4>>, <<4, 5>>>>
    /\ subject_wise_mean[2] = 5

(***************************************************************************)
(* process_voxels of src/heig/voxelgwas.py: one task per position of       *)
(* voxel_idxs; the results are kept in results_dict as the futures         *)
(* complete, in any order, and appended to the output file in the order of *)
(* the positions.  A block of output is known by the position of its       *)
(* voxel; a voxel without a significant SNP gives None.                    *)
(***************************************************************************)
\* most voxels of a call of process_voxels
MaxVoxels == 4

\* _process_voxels_batch(i, ...): the block of position i, or None
VoxelResult(sig, i) == IF sig[i] THEN Some(i) ELSE None

\* a dict without the key k
Pop(d, k) == [j \in DOMAIN d \ {k} |-> d[j]]

\* every block held is written at once, whatever the position awaited
RECURSIVE write_ready_unordered(_, _, _)
write_ready_unordered(d, next, file) ==
    LET held == {j \in DOMAIN d : d[j] # None}
    IN  IF held = {}
        THEN [results_dict |-> d, next_write_i |-> next + 1, file |-> file]
        ELSE LET j == CHOOSE k \in held : \A l \in held : l <= k
             IN  write_ready_unordered(Pop(d, j), next, Append(file, Val(d[j])))

\* while next_write_i in results_dict: the block of next_write_i, if there is one, is
\* popped and appended to the file; next_write_i += 1
RECURSIVE write_ready(_, _, _)
write_ready(d, next, file) ==
    IF next \notin DOMAIN d
    THEN [results_dict |-> d, next_write_i |-> next, file |-> file]
    ELSE IF d[next] # None
    THEN write_ready(Pop(d, next), next + 1, Append(file, Val(d[next])))
    ELSE write_ready(d, next + 1, file)

\* process_voxels up to the as_completed loop: every task is submitted
InitVoxels ==
    /\ PipeIdle /\ ReaderIdle /\ SmootherIdle /\ FpcaIdle /\ EigenIdle /\ TasksIdle /\ ArgsIdle
    /\ PoolIdle /\ VgwasIdle /\ WriteIdle /\ BedIdle
    /\ x_pc = "as_completed"
    /\ x_q \in 1..MaxVoxels
    /\ all_sig_idxs_voxel \in [0..(x_q - 1) -> BOOLEAN]
    /\ x_pending = 0..(x_q - 1)
    /\ results_dict = <<>>
    /\ next_write_i = 0
    /\ x_file = <<>>

\* as_completed yields one of the pending futures; its result is stored and the
\* blocks that have become writable are written
VoxelCompleted ==
    /\ x_pc = "as_completed"
    /\ \E i \in x_pending :
        LET out == write_ready((i :> VoxelResult(all_sig_idxs_voxel, i)) @@ results_dict,
                               next_write_i, x_file)
        IN  /\ x_pending' = x_pending \ {i}
            /\ results_dict' = out.results_dict
            /\ next_write_i' = out.next_write_i
            /\ x_file' = out.file
    /\ UNCHANGED notVoxels
    /\ UNCHANGED <<x_pc, x_q, all_sig_idxs_voxel>>

\* every future was yielded: process_voxels returns
VoxelsReturn ==
    /\ x_pc = "as_completed"
    /\ x_pending = {}
    /\ x_pc' = "returned"
    /\ UNCHANGED notVoxels
    /\ UNCHANGED <<x_q, all_sig_idxs_voxel, x_pending, results_dict, next_write_i, x_file>>

NextVoxels == VoxelCompleted \/ VoxelsReturn

SpecVoxels == InitVoxels /\ [][NextVoxels]_vars

\* the positions below k whose voxel has a significant SNP, ascending
SigBelow(k) == Ascending({i \in 0..(k - 1) : all_sig_idxs_voxel[i]})

\* C27: for every completion order, the file holds the blocks of the voxels with
\* significant SNPs among the positions consumed, in ascending position, each once;
\* the positions consumed are exactly the longest run 0..k-1 of completed positions,
\* so no block is written before the block of an earlier voxel; voxels without
\* significant SNPs write nothing; and when process_voxels returns every position
\* 0..q-1 has been consumed.
C27_BlocksInVoxelOrder ==
    /\ x_file = SigBelow(next_write_i)
    /\ next_write_i \in 0..x_q
    /\ \A i \in 0..(next_write_i - 1) : i \notin x_pending
    /\ next_write_i < x_q => next_write_i \in x_pending
    /\ \A i \in DOMAIN results_dict : results_dict[i] # None => i > next_write_i
    /\ x_pc = "returned" => (next_write_i = x_q /\ x_file = SigBelow(x_q))

\* C27 witness: the blocks of the second and third voxel are held back because the
\* task of the first voxel has not completed
C27_Witness ==
    /\ x_pc = "as_completed"
    /\ x_q = 3
    /\ x_pending = {0}
    /\ all_sig_idxs_voxel[1] /\ all_sig_idxs_voxel[2]
    /\ DOMAIN results_dict = {1, 2}
    /\ x_file = <<>>

(***************************************************************************)
(* PlinkBEDFile.nextSNPs of src/parse.py.  self.geno holds 2 * nru bits    *)
(* per SNP, so every slice bound of nextSNPs is a multiple of 2 * nru and  *)
(* the slice is a run of whole SNPs; geno is modelled as the sequence of   *)
(* the SNPs 0..m-1.  num is whatever integer the caller passes.            *)
(***************************************************************************)
\* most SNPs of a file
MaxSnps == 3
\* most calls of nextSNPs followed
MaxCalls == 3

\* the values of num: negative, zero, up to one more than the file holds
Nums == -2..(MaxSnps + 1)

\* a bound k of a Python slice of a sequence of length len, as a position in 0..len
SliceBound(k, len) == IF k < 0 THEN Max(k + len, 0) ELSE Min(k, len)

\* self.geno[2*cur*nru : 2*(cur+num)*nru], as the pair <<first, past the last>> of the
\* SNPs it holds
GenoSlice(cur, num, m) ==
    LET a == SliceBound(cur, m)
        b == SliceBound(cur + num, m)
    IN  <<a, Max(a, b)>>

\* the array can take the shape (num, nru): num rows exactly, or any number of rows
\* when num is -1, which numpy reads as "infer"
Reshapes(count, num) == IF num >= 0 THEN count = num ELSE num = -1

\* nextSNPs(num) at cursor cur on m SNPs: the outcome, the SNPs returned and the
\* cursor afterwards
nextSNPs(cur, num, m) ==
    IF cur + num > m
    THEN [outcome |-> "ValueError: SNPs requested", snps |-> <<0, 0>>, cursor |-> cur]
    ELSE LET sl == GenoSlice(cur, num, m)
         IN  IF Reshapes(sl[2] - sl[1], num)
             THEN [outcome |-> "ok", snps |-> sl, cursor |-> cur + num]
             ELSE [outcome |-> "ValueError: reshape", snps |-> <<0, 0>>, cursor |-> cur]

\* the object after __init__: at least one SNP remains, the cursor is 0
InitBed ==
    /\ PipeIdle /\ ReaderIdle /\ SmootherIdle /\ FpcaIdle /\ EigenIdle /\ TasksIdle /\ ArgsIdle
    /\ PoolIdle /\ VgwasIdle /\ WriteIdle /\ VoxelsIdle
    /\ b_m \in 1..MaxSnps
    /\ currentSNP = 0
    /\ geno = [j \in 1..b_m |-> j - 1]
    /\ b_calls = <<>>

\* one call nextSNPs(num)
NextSNPs ==
    /\ Len(b_calls) < MaxCalls
    /\ \E num \in Nums :
        LET r == nextSNPs(currentSNP, num, b_m)
        IN  /\ currentSNP' = r.cursor
            /\ b_calls' = Append(b_calls, [num |-> num, before |-> currentSNP,
                                           outcome |-> r.outcome, snps |-> r.snps])
    /\ UNCHANGED notBed
    /\ UNCHANGED <<b_m, geno>>

NextBed == NextSNPs

SpecBed == InitBed /\ [][NextBed]_vars

\* the calls that returned
OkCalls == {k \in 1..Len(b_calls) : b_calls[k].outcome = "ok"}

\* C30, as claimed: for any sequence of calls the cursor stays within [0, m]; a call
\* requesting more SNPs than remain raises ValueError and leaves the cursor where it
\* was; every other call succeeds, advances the cursor by exactly num and returns
\* the next num consecutive SNPs, so that the ranges returned by successive calls are
\* disjoint and in order; the genotype data never changes.
C30_CursorWithinBoundsAndInOrder ==
    /\ currentSNP \in 0..b_m
    /\ geno = [j \in 1..b_m |-> j - 1]
    /\ \A k \in 1..Len(b_calls) :
          LET c == b_calls[k]
              after == IF k < Len(b_calls) THEN b_calls[k + 1].before ELSE currentSNP
          IN  IF c.before + c.num > b_m
              THEN c.outcome # "ok" /\ after = c.before
              ELSE /\ c.outcome = "ok"
                   /\ after = c.before + c.num
                   /\ c.snps = <<c.before, c.before + c.num>>
    /\ \A k, l \in OkCalls : k < l => b_calls[k].snps[2] <= b_calls[l].snps[1]

=============================================================================
